---------------------------- MODULE Spec2Model ----------------------------
(***************************************************************************)
(* Model of FSMValidator (src/tools/validators.py): the asset-ledger       *)
(* parser, the prose reference scanner, the source-episode check and the   *)
(* structure-order check, each stepped one loop iteration at a time.       *)
(*                                                                         *)
(* Text is modelled as sequences of one-character strings, so that the     *)
(* string operations of the code (strip, split, startswith, the regular    *)
(* expressions, int() and the :04d format) are computed, not assumed.      *)
(* A file is a record [exists, lines]; a line carries no line terminator.  *)
(***************************************************************************)
EXTENDS Integers, Sequences, FiniteSets, TLC

VARIABLES
    entry,              \* which method the caller invoked
    pc,                 \* position of the single thread of control
    ledger_file,        \* assets/LEDGER.md
    prose_file,         \* prose/draft.md
    outline_file,       \* structure/outline.md
    violations,         \* Validator.violations
    line_number,        \* enumerate(fp, start=1) of the scan in progress
    expected_next_id,   \* _parse_asset_ledger
    asset_ids,          \* _parse_asset_ledger: Set[str]
    asset_sources,      \* _parse_asset_ledger: Dict, kept in insertion order
    episode_ids,        \* the episode-ID set handed to _validate_asset_sources
    missing,            \* _validate_prose_references
    src_index,          \* _validate_asset_sources: position in .items()
    structure_sections, \* _parse_structure_sections
    prose_sections,     \* _parse_prose_sections
    sec_index,          \* _validate_structure_order: position in structure_sections
    last_index,         \* _validate_structure_order
    user_guide,         \* whether <root>/user-guide exists
    episodes_dir,       \* user-guide/episodes: whether it exists, its entries
    ep_seen,            \* _list_episode_ids: the entries iterdir() has yielded
    run,                \* which call of validate() on this tree is running
    first_result,       \* the list the first call returned
    validator_outcomes, \* FSMValidatorRunner: what each validator's validate() does
    validator_index,    \* validate_all: position in self.validators
    all_violations,     \* validate_all
    result,             \* the ValidationResult validate_all returned
    state_dirs,         \* REINDEXManager: the state directories that exist
    markers,            \* REINDEXManager: the content of each state's REINDEX.md
    outcome             \* REINDEXManager: how the last command ended

vars == <<entry, pc, ledger_file, prose_file, outline_file, violations,
          line_number, expected_next_id, asset_ids, asset_sources,
          episode_ids, missing, src_index, structure_sections,
          prose_sections, sec_index, last_index, user_guide, episodes_dir,
          ep_seen, run, first_result, validator_outcomes, validator_index,
          all_violations, result, state_dirs, markers, outcome>>

\* the variables of one validator, of the runner and of the REINDEX tool
runs_vars == <<run, first_result>>

runner_vars == <<validator_outcomes, validator_index, all_violations, result>>

reindex_vars == <<state_dirs, markers, outcome>>

-----------------------------------------------------------------------------
(* Bounds of the model *)

MaxId == 4
MaxLedgerLines == 4
MaxProseLines == 3
MaxSourceRows == 2
MaxSections == 3

-----------------------------------------------------------------------------
(* Text primitives *)

DigitChars == <<"0", "1", "2", "3", "4", "5", "6", "7", "8", "9">>

IsDigit(c) == \E i \in 1..10 : DigitChars[i] = c

DigitVal(c) == (CHOOSE i \in 1..10 : DigitChars[i] = c) - 1

StartsWith(s, p) == Len(s) >= Len(p) /\ SubSeq(s, 1, Len(p)) = p

EndsWith(s, p) == Len(s) >= Len(p) /\ SubSeq(s, Len(s) - Len(p) + 1, Len(s)) = p

\* str.strip(chars), with the characters to strip given as a predicate set
RECURSIVE StripChars(_, _)
StripChars(s, cs) ==
    IF s = <<>> THEN s
    ELSE IF s[1] \in cs THEN StripChars(Tail(s), cs)
    ELSE IF s[Len(s)] \in cs THEN StripChars(SubSeq(s, 1, Len(s) - 1), cs)
    ELSE s

\* str.strip()
Strip(s) == StripChars(s, {" "})

\* str.split(sep)
RECURSIVE Split(_, _)
Split(s, sep) ==
    IF \A i \in 1..Len(s) : s[i] # sep THEN <<s>>
    ELSE LET k == CHOOSE i \in 1..Len(s) :
                      s[i] = sep /\ \A j \in 1..(i - 1) : s[j] # sep
         IN  <<SubSeq(s, 1, k - 1)>> \o Split(SubSeq(s, k + 1, Len(s)), sep)

\* int(s) for a string of decimal digits
RECURSIVE ParseInt(_)
ParseInt(s) ==
    IF s = <<>> THEN 0
    ELSE ParseInt(SubSeq(s, 1, Len(s) - 1)) * 10 + DigitVal(s[Len(s)])

RECURSIVE DecimalDigits(_)
DecimalDigits(n) ==
    IF n < 10 THEN <<DigitChars[n + 1]>>
    ELSE DecimalDigits(n \div 10) \o <<DigitChars[(n % 10) + 1]>>

RECURSIVE ZeroPad(_, _)
ZeroPad(s, w) == IF Len(s) >= w THEN s ELSE ZeroPad(<<"0">> \o s, w)

AssetPrefix == <<"a", "s", "s", "e", "t", "-">>

RowPrefix == <<"|", " ">> \o AssetPrefix

-----------------------------------------------------------------------------
(* Validator.add_violation *)

NoLine == 0

\* add_violation with the line argument dropped
AddViolationDropsLine(vs, artifact, requirement, template, a, b, line) ==
    Append(vs, [artifact |-> artifact, line |-> NoLine, requirement |-> requirement,
                details |-> <<template, a, b>>])

\* add_violation putting the record at the head of the list
AddViolationAtHead(vs, artifact, requirement, template, a, b, line) ==
    <<[artifact |-> artifact, line |-> line, requirement |-> requirement,
       details |-> <<template, a, b>>]>> \o vs

\* add_violation appending the record twice
AddViolationTwice(vs, artifact, requirement, template, a, b, line) ==
    LET v == [artifact |-> artifact, line |-> line, requirement |-> requirement,
              details |-> <<template, a, b>>]
    IN  Append(Append(vs, v), v)

AddViolation(vs, artifact, requirement, template, a, b, line) ==
    Append(vs, [artifact |-> artifact, line |-> line,
                requirement |-> requirement,
                details |-> <<template, a, b>>])

LedgerArtifact == "assets/LEDGER.md"
ProseArtifact == "prose/draft.md"
OutlineArtifact == "structure/outline.md"

MsgLedgerMissing == "Missing assets/LEDGER.md; cannot validate asset references."
MsgBadFormat == "Asset ID '{0}' has invalid format (expected: asset-NNNN with 4 digits)."
MsgNotSequential == "Asset ID {0} breaks sequential order (expected: {1})."
MsgProseMissing == "Missing prose/draft.md; FSM validation requires prose to exist."
MsgUnregistered == "Prose references {0} which is not registered in assets/LEDGER.md."
MsgNoSource == "Asset {0} lists no Source Episode in LEDGER.md."
MsgNoEpisode == "Asset {0} references episode {1} but no such episode file exists."
MsgEpisodeFormat == "Episode filename '{0}' has invalid format (expected: episode-NN.md with 2 digits)."
MsgOutlineMissing == "Missing structure/outline.md; cannot verify section order."
MsgNotFound == "Structure section '{0}' cannot be found in prose/draft.md."
MsgOutOfOrder == "Section '{0}' appears out of order relative to structure/outline.md."

-----------------------------------------------------------------------------
(* FSMValidator._parse_asset_ledger *)

MatchesAssetIdThreeDigits(s) ==
    /\ Len(s) = 9
    /\ SubSeq(s, 1, 6) = AssetPrefix
    /\ \A i \in 7..9 : IsDigit(s[i])

\* re.match(r"^asset-\d{4}$", asset_id)
MatchesAssetId(s) ==
    /\ Len(s) = 10
    /\ SubSeq(s, 1, 6) = AssetPrefix
    /\ \A i \in 7..10 : IsDigit(s[i])

\* f"asset-{expected_next_id:04d}"
FormatExpected(n) == AssetPrefix \o ZeroPad(DecimalDigits(n), 4)

\* int(asset_id.split("-")[1])
IdNum(asset_id) == ParseInt(Split(asset_id, "-")[2])

\* [col.strip() for col in stripped.strip("|").split("|")]
RECURSIVE StripAll(_)
StripAll(cols) ==
    IF cols = <<>> THEN <<>> ELSE <<Strip(Head(cols))>> \o StripAll(Tail(cols))

Columns(stripped) == StripAll(Split(StripChars(stripped, {"|"}), "|"))

NonEmpty(s) == s # <<>>

ParseSourcesUnfiltered(columns) ==
    LET source_value == IF Len(columns) > 3 THEN columns[4] ELSE <<>>
    IN  StripAll(Split(source_value, ","))

\* lines 249-250: [s.strip() for s in source_value.split(",") if s.strip()]

ParseSources(columns) ==
    LET source_value == IF Len(columns) > 3 THEN columns[4] ELSE <<>>
    IN  SelectSeq(StripAll(Split(source_value, ",")), NonEmpty)

\* a mapping that keeps the first value stored under a key
DictSetKeepFirst(d, key, line, sources) ==
    IF \E i \in 1..Len(d) : d[i].id = key
    THEN d
    ELSE Append(d, [id |-> key, line |-> line, sources |-> sources])

\* asset_sources[asset_id] = {...} on a dict that keeps insertion order
DictSet(d, key, line, sources) ==
    IF \E i \in 1..Len(d) : d[i].id = key
    THEN [i \in 1..Len(d) |->
            IF d[i].id = key
            THEN [id |-> key, line |-> line, sources |-> sources]
            ELSE d[i]]
    ELSE Append(d, [id |-> key, line |-> line, sources |-> sources])

\* validate() calling the source check before the reference check
ReturnSourcesFirst(method) ==
    CASE entry = "validate" /\ method = "parse_asset_ledger" -> "list_episode_ids"
      [] entry = "validate" /\ method = "list_episode_ids" -> "validate_asset_sources"
      [] entry = "validate" /\ method = "validate_asset_sources" -> "validate_prose_references"
      [] entry = "validate" /\ method = "validate_prose_references" -> "parse_structure_sections"
      [] entry = "validate" /\ method = "parse_structure_sections" -> "parse_prose_sections"
      [] entry = "validate" /\ method = "parse_prose_sections" -> "validate_structure_order"
      [] OTHER -> "done"

\* the next pc once a method returns, by the caller's sequence of calls:
\* validate() (lines 187-199), or a caller of one method or of two in a row
Return(method) ==
    CASE entry = "validate" /\ method = "parse_asset_ledger" -> "list_episode_ids"
      [] entry = "validate" /\ method = "list_episode_ids" -> "validate_prose_references"
      [] entry = "validate" /\ method = "validate_prose_references" -> "validate_asset_sources"
      [] entry = "validate" /\ method = "validate_asset_sources" -> "parse_structure_sections"
      [] entry = "validate" /\ method = "parse_structure_sections" -> "parse_prose_sections"
      [] entry = "validate" /\ method = "parse_prose_sections" -> "validate_structure_order"
      [] entry = "sources" /\ method = "parse_asset_ledger" -> "validate_asset_sources"
      [] entry = "structure" /\ method = "parse_structure_sections" -> "parse_prose_sections"
      [] entry = "structure" /\ method = "parse_prose_sections" -> "validate_structure_order"
      [] OTHER -> "done"

\* line 247, under the else of line 237: the counter follows the last
\* well-formed row; a malformed row leaves it alone
ExpectedAfterCounting(wellformed, expected, id_num) ==
    IF wellformed THEN expected + 1 ELSE expected

\* the counter advanced only by a row that met the expectation
ExpectedAfterOnlyOnMatch(wellformed, expected, id_num) ==
    IF wellformed /\ id_num = expected THEN id_num + 1 ELSE expected

ExpectedAfterAnyRow(wellformed, expected, id_num) ==
    IF wellformed THEN id_num + 1 ELSE expected + 1

ExpectedAfter(wellformed, expected, id_num) ==
    IF wellformed THEN id_num + 1 ELSE expected

\* lines 205-216: the locals, the missing-file return, the counter
ParseAssetLedgerBegin ==
    /\ pc = "parse_asset_ledger"
    /\ asset_ids' = {}
    /\ asset_sources' = <<>>
    /\ IF ~ledger_file.exists
       THEN /\ violations' = AddViolation(violations, LedgerArtifact,
                                 "USER_GUIDE_ASSET", MsgLedgerMissing,
                                 <<>>, <<>>, NoLine)
            /\ pc' = Return("parse_asset_ledger")
            /\ UNCHANGED <<expected_next_id, line_number>>
       ELSE /\ expected_next_id' = 1
            /\ line_number' = 0
            /\ pc' = "ledger_loop"
            /\ UNCHANGED violations
    /\ UNCHANGED <<runs_vars, runner_vars, reindex_vars, user_guide, episodes_dir, ep_seen, entry,
                   ledger_file, prose_file, outline_file, episode_ids,
                   missing, src_index, structure_sections, prose_sections,
                   sec_index, last_index>>

\* lines 218-252: one iteration of the loop over the ledger's lines
ParseLedgerLine ==
    /\ pc = "ledger_loop"
    /\ line_number < Len(ledger_file.lines)
    /\ LET n == line_number + 1
           stripped == Strip(ledger_file.lines[n])
           columns == Columns(stripped)
           asset_id == columns[1]
           wellformed == MatchesAssetId(asset_id)
           id_num == IdNum(asset_id)
       IN  /\ line_number' = n
           /\ IF ~StartsWith(stripped, RowPrefix) \/ columns = <<>>
              THEN UNCHANGED <<violations, expected_next_id, asset_ids,
                               asset_sources>>
              ELSE /\ violations' =
                        IF ~wellformed
                        THEN AddViolation(violations, LedgerArtifact,
                                 "USER_GUIDE_ASSET", MsgBadFormat,
                                 asset_id, <<>>, n)
                        ELSE IF id_num # expected_next_id
                        THEN AddViolation(violations, LedgerArtifact,
                                 "USER_GUIDE_ASSET", MsgNotSequential,
                                 asset_id, FormatExpected(expected_next_id), n)
                        ELSE violations
                   /\ expected_next_id' =
                        ExpectedAfter(wellformed, expected_next_id, id_num)
                   /\ asset_ids' = asset_ids \cup {asset_id}
                   /\ asset_sources' =
                        DictSet(asset_sources, asset_id, n, ParseSources(columns))
    /\ UNCHANGED <<runs_vars, runner_vars, reindex_vars, user_guide, episodes_dir, ep_seen, entry, pc,
                   ledger_file, prose_file, outline_file,
                   episode_ids, missing, src_index, structure_sections,
                   prose_sections, sec_index, last_index>>

\* line 254: return asset_ids, asset_sources
ParseAssetLedgerReturn ==
    /\ pc = "ledger_loop"
    /\ line_number = Len(ledger_file.lines)
    /\ pc' = Return("parse_asset_ledger")
    /\ UNCHANGED <<runs_vars, runner_vars, reindex_vars, user_guide, episodes_dir, ep_seen, entry,
                   ledger_file, prose_file, outline_file, violations,
                   line_number, expected_next_id, asset_ids, asset_sources,
                   episode_ids, missing, src_index, structure_sections,
                   prose_sections, sec_index, last_index>>

-----------------------------------------------------------------------------
(* FSMValidator._validate_prose_references *)

FirstAssetToken(s) ==
    IF \E i \in 1..(Len(s) - 9) : MatchesAssetId(SubSeq(s, i, i + 9))
    THEN LET k == CHOOSE i \in 1..(Len(s) - 9) :
                      /\ MatchesAssetId(SubSeq(s, i, i + 9))
                      /\ \A j \in 1..(i - 1) : ~MatchesAssetId(SubSeq(s, j, j + 9))
         IN  <<SubSeq(s, k, k + 9)>>
    ELSE <<>>

\* [m.group(0) for m in re.compile(r"asset-\d{4}").finditer(line)]: the scan
\* goes left to right and resumes after the end of each match
RECURSIVE FindAssetTokens(_)
FindAssetTokens(s) ==
    IF Len(s) < 10 THEN <<>>
    ELSE IF MatchesAssetId(SubSeq(s, 1, 10))
         THEN <<SubSeq(s, 1, 10)>> \o FindAssetTokens(SubSeq(s, 11, Len(s)))
         ELSE FindAssetTokens(Tail(s))

ShouldReportEveryMiss(asset_id, ids, reported) == asset_id \notin ids

\* the reference check skipped when no ID is registered at all
ShouldReportIfAnyRegistered(asset_id, ids, reported) ==
    ids # {} /\ asset_id \notin ids /\ asset_id \notin reported

\* line 298: asset_id not in asset_ids and asset_id not in missing
ShouldReport(asset_id, ids, reported) ==
    asset_id \notin ids /\ asset_id \notin reported

\* lines 296-305: the matches of one line, in order; st = [missing, violations]
RECURSIVE ScanTokens(_, _, _, _)
ScanTokens(tokens, ids, n, st) ==
    IF tokens = <<>> THEN st
    ELSE LET asset_id == Head(tokens)
         IN  ScanTokens(Tail(tokens), ids, n,
                 IF ShouldReport(asset_id, ids, st.missing)
                 THEN [missing |-> st.missing \cup {asset_id},
                       violations |-> AddViolation(st.violations, ProseArtifact,
                                          "USER_GUIDE_ASSET", MsgUnregistered,
                                          asset_id, <<>>, n)]
                 ELSE st)

\* lines 283-292: the missing-file return, the pattern and the reported set
ValidateProseReferencesBegin ==
    /\ pc = "validate_prose_references"
    /\ IF ~prose_file.exists
       THEN /\ violations' = AddViolation(violations, ProseArtifact,
                                 "USER_GUIDE_ASSET", MsgProseMissing,
                                 <<>>, <<>>, NoLine)
            /\ pc' = Return("validate_prose_references")
            /\ UNCHANGED <<missing, line_number>>
       ELSE /\ missing' = {}
            /\ line_number' = 0
            /\ pc' = "refs_loop"
            /\ UNCHANGED violations
    /\ UNCHANGED <<runs_vars, runner_vars, reindex_vars, user_guide, episodes_dir, ep_seen, entry,
                   ledger_file, prose_file, outline_file,
                   expected_next_id, asset_ids, asset_sources, episode_ids,
                   src_index, structure_sections, prose_sections, sec_index,
                   last_index>>

\* lines 295-305: one iteration of the loop over the prose lines
ScanProseLine ==
    /\ pc = "refs_loop"
    /\ line_number < Len(prose_file.lines)
    /\ LET n == line_number + 1
           st == ScanTokens(FindAssetTokens(prose_file.lines[n]), asset_ids, n,
                            [missing |-> missing, violations |-> violations])
       IN  /\ line_number' = n
           /\ missing' = st.missing
           /\ violations' = st.violations
    /\ UNCHANGED <<runs_vars, runner_vars, reindex_vars, user_guide, episodes_dir, ep_seen, entry, pc,
                   ledger_file, prose_file, outline_file,
                   expected_next_id, asset_ids, asset_sources, episode_ids,
                   src_index, structure_sections, prose_sections, sec_index,
                   last_index>>

\* the end of the file: the method returns None
ValidateProseReferencesReturn ==
    /\ pc = "refs_loop"
    /\ line_number = Len(prose_file.lines)
    /\ pc' = Return("validate_prose_references")
    /\ UNCHANGED <<runs_vars, runner_vars, reindex_vars, user_guide, episodes_dir, ep_seen, entry,
                   ledger_file, prose_file, outline_file, violations,
                   line_number, expected_next_id, asset_ids, asset_sources,
                   episode_ids, missing, src_index, structure_sections,
                   prose_sections, sec_index, last_index>>

-----------------------------------------------------------------------------
(* FSMValidator._validate_asset_sources *)

\* the source check skipped when no episode file is known at all
MissingEpisodesIfAnyKnown(sources, eps) ==
    IF eps = {} THEN <<>> ELSE SelectSeq(sources, LAMBDA e : e \notin eps)

\* lines 325-326: the entries of the source list with no episode file, in order
MissingEpisodes(sources, eps) == SelectSeq(sources, LAMBDA e : e \notin eps)

\* lines 327-332: one violation for each of them
RECURSIVE ReportMissing(_, _, _, _)
ReportMissing(vs, asset_id, line, eps) ==
    IF eps = <<>> THEN vs
    ELSE ReportMissing(AddViolation(vs, LedgerArtifact, "USER_GUIDE_ASSET",
                                    MsgNoEpisode, asset_id, Head(eps), line),
                       asset_id, line, Tail(eps))

\* line 314: the iteration over asset_sources.items() starts
ValidateAssetSourcesBegin ==
    /\ pc = "validate_asset_sources"
    /\ src_index' = 0
    /\ pc' = "sources_loop"
    /\ UNCHANGED <<runs_vars, runner_vars, reindex_vars, user_guide, episodes_dir, ep_seen, entry,
                   ledger_file, prose_file, outline_file, violations,
                   line_number, expected_next_id, asset_ids, asset_sources,
                   episode_ids, missing, structure_sections, prose_sections,
                   sec_index, last_index>>

\* lines 314-332: one asset of the mapping
ValidateAssetSource ==
    /\ pc = "sources_loop"
    /\ src_index < Len(asset_sources)
    /\ LET meta == asset_sources[src_index + 1]
       IN  /\ src_index' = src_index + 1
           /\ violations' =
                IF meta.sources = <<>>
                THEN AddViolation(violations, LedgerArtifact, "USER_GUIDE_ASSET",
                                  MsgNoSource, meta.id, <<>>, meta.line)
                ELSE ReportMissing(violations, meta.id, meta.line,
                                   MissingEpisodes(meta.sources, episode_ids))
    /\ UNCHANGED <<runs_vars, runner_vars, reindex_vars, user_guide, episodes_dir, ep_seen, entry, pc,
                   ledger_file, prose_file, outline_file,
                   line_number, expected_next_id, asset_ids, asset_sources,
                   episode_ids, missing, structure_sections, prose_sections,
                   sec_index, last_index>>

\* the mapping is exhausted: the method returns None
ValidateAssetSourcesReturn ==
    /\ pc = "sources_loop"
    /\ src_index = Len(asset_sources)
    /\ pc' = Return("validate_asset_sources")
    /\ UNCHANGED <<runs_vars, runner_vars, reindex_vars, user_guide, episodes_dir, ep_seen, entry,
                   ledger_file, prose_file, outline_file, violations,
                   line_number, expected_next_id, asset_ids, asset_sources,
                   episode_ids, missing, src_index, structure_sections,
                   prose_sections, sec_index, last_index>>

-----------------------------------------------------------------------------
(* FSMValidator._parse_structure_sections, _parse_prose_sections *)

SectionMarker == <<"#", "#", " ", "S", "e", "c", "t", "i", "o", "n">>

HeadingMarker == <<"#", "#", " ">>

HasChar(s, c) == \E i \in 1..Len(s) : s[i] = c

\* the text after the last c of s
AfterLast(s, c) ==
    LET k == CHOOSE i \in 1..Len(s) : s[i] = c /\ \A j \in (i + 1)..Len(s) : s[j] # c
    IN  SubSeq(s, k + 1, Len(s))

\* stripped.split(c, 1)[1]
AfterFirst(s, c) ==
    LET k == CHOOSE i \in 1..Len(s) : s[i] = c /\ \A j \in 1..(i - 1) : s[j] # c
    IN  SubSeq(s, k + 1, Len(s))

\* line 345
SectionTitle(stripped) ==
    IF HasChar(stripped, ":")
    THEN Strip(AfterFirst(stripped, ":"))
    ELSE Strip(SubSeq(stripped, Len(SectionMarker) + 1, Len(stripped)))

\* lines 341-346: the loop over the outline's lines, from line n on
RECURSIVE StructureSectionsFrom(_, _)
StructureSectionsFrom(ls, n) ==
    IF n > Len(ls) THEN <<>>
    ELSE LET stripped == Strip(ls[n])
         IN  IF StartsWith(stripped, SectionMarker)
             THEN <<[name |-> SectionTitle(stripped), line |-> n]>>
                      \o StructureSectionsFrom(ls, n + 1)
             ELSE StructureSectionsFrom(ls, n + 1)

\* lines 357-360: the loop over the prose lines, from line n on
RECURSIVE ProseSectionsFrom(_, _)
ProseSectionsFrom(ls, n) ==
    IF n > Len(ls) THEN <<>>
    ELSE LET stripped == Strip(ls[n])
         IN  IF StartsWith(stripped, HeadingMarker)
             THEN <<[name |-> Strip(SubSeq(stripped, 4, Len(stripped))), line |-> n]>>
                      \o ProseSectionsFrom(ls, n + 1)
             ELSE ProseSectionsFrom(ls, n + 1)

\* lines 334-348
ParseStructureSections ==
    /\ pc = "parse_structure_sections"
    /\ structure_sections' =
           IF ~outline_file.exists THEN <<>>
           ELSE StructureSectionsFrom(outline_file.lines, 1)
    /\ pc' = Return("parse_structure_sections")
    /\ UNCHANGED <<runs_vars, runner_vars, reindex_vars, user_guide, episodes_dir, ep_seen, entry,
                   ledger_file, prose_file, outline_file, violations,
                   line_number, expected_next_id, asset_ids, asset_sources,
                   episode_ids, missing, src_index, prose_sections, sec_index,
                   last_index>>

\* lines 350-362
ParseProseSections ==
    /\ pc = "parse_prose_sections"
    /\ prose_sections' =
           IF ~prose_file.exists THEN <<>>
           ELSE ProseSectionsFrom(prose_file.lines, 1)
    /\ pc' = Return("parse_prose_sections")
    /\ UNCHANGED <<runs_vars, runner_vars, reindex_vars, user_guide, episodes_dir, ep_seen, entry,
                   ledger_file, prose_file, outline_file, violations,
                   line_number, expected_next_id, asset_ids, asset_sources,
                   episode_ids, missing, src_index, structure_sections,
                   sec_index, last_index>>

-----------------------------------------------------------------------------
(* FSMValidator._validate_structure_order *)

\* lines 390-394: whether some prose section has the name
Found(ps, name) == \E i \in 1..Len(ps) : ps[i].name = name

\* lines 390-394: the 0-based index of the FIRST prose section with the name;
\* the search starts at the beginning of the list every time
FoundIndex(ps, name) ==
    (CHOOSE i \in 1..Len(ps) :
        ps[i].name = name /\ \A j \in 1..(i - 1) : ps[j].name # name) - 1

IsOutOfOrderFlipped(found_index, last) == found_index >= last

\* line 405
IsOutOfOrder(found_index, last) == found_index <= last

\* _validate_structure_order without the missing-prose return of lines
\* 380-381
ValidateStructureOrderBeginIgnoresProse ==
    /\ pc = "validate_structure_order"
    /\ IF ~outline_file.exists
       THEN /\ violations' = AddViolation(violations, OutlineArtifact,
                                 "USER_GUIDE_STRUCTURE", MsgOutlineMissing,
                                 <<>>, <<>>, NoLine)
            /\ pc' = Return("validate_structure_order")
            /\ UNCHANGED <<last_index, sec_index>>
       ELSE /\ last_index' = -1
            /\ sec_index' = 0
            /\ pc' = "structure_loop"
            /\ UNCHANGED violations
    /\ UNCHANGED <<runs_vars, runner_vars, reindex_vars, user_guide, episodes_dir, ep_seen, entry, ledger_file,
                   prose_file, outline_file, line_number, expected_next_id,
                   asset_ids, asset_sources, episode_ids, missing, src_index,
                   structure_sections, prose_sections>>

\* lines 372-383: the two missing-file returns, then last_index = -1
ValidateStructureOrderBegin ==
    /\ pc = "validate_structure_order"
    /\ IF ~outline_file.exists
       THEN /\ violations' = AddViolation(violations, OutlineArtifact,
                                 "USER_GUIDE_STRUCTURE", MsgOutlineMissing,
                                 <<>>, <<>>, NoLine)
            /\ pc' = Return("validate_structure_order")
            /\ UNCHANGED <<last_index, sec_index>>
       ELSE IF ~prose_file.exists
       THEN /\ pc' = Return("validate_structure_order")
            /\ UNCHANGED <<violations, last_index, sec_index>>
       ELSE /\ last_index' = -1
            /\ sec_index' = 0
            /\ pc' = "structure_loop"
            /\ UNCHANGED violations
    /\ UNCHANGED <<runs_vars, runner_vars, reindex_vars, user_guide, episodes_dir, ep_seen, entry,
                   ledger_file, prose_file, outline_file, line_number,
                   expected_next_id, asset_ids, asset_sources, episode_ids,
                   missing, src_index, structure_sections, prose_sections>>

\* lines 384-413: one declared section
CheckSection ==
    /\ pc = "structure_loop"
    /\ sec_index < Len(structure_sections)
    /\ LET section == structure_sections[sec_index + 1]
           name == section.name
           found_index == FoundIndex(prose_sections, name)
           found_line == prose_sections[found_index + 1].line
       IN  /\ sec_index' = sec_index + 1
           /\ IF ~Found(prose_sections, name)
              THEN /\ violations' = AddViolation(violations, OutlineArtifact,
                                        "USER_GUIDE_STRUCTURE", MsgNotFound,
                                        name, <<>>, section.line)
                   /\ UNCHANGED last_index
              ELSE /\ violations' =
                        IF IsOutOfOrder(found_index, last_index)
                        THEN AddViolation(violations, ProseArtifact,
                                 "USER_GUIDE_STRUCTURE", MsgOutOfOrder,
                                 name, <<>>, found_line)
                        ELSE violations
                   /\ last_index' = found_index
    /\ UNCHANGED <<runs_vars, runner_vars, reindex_vars, user_guide, episodes_dir, ep_seen, entry, pc,
                   ledger_file, prose_file, outline_file,
                   line_number, expected_next_id, asset_ids, asset_sources,
                   episode_ids, missing, src_index, structure_sections,
                   prose_sections>>

\* the declared sections are exhausted: the method returns None
ValidateStructureOrderReturn ==
    /\ pc = "structure_loop"
    /\ sec_index = Len(structure_sections)
    /\ pc' = Return("validate_structure_order")
    /\ UNCHANGED <<runs_vars, runner_vars, reindex_vars, user_guide, episodes_dir, ep_seen, entry,
                   ledger_file, prose_file, outline_file, violations,
                   line_number, expected_next_id, asset_ids, asset_sources,
                   episode_ids, missing, src_index, structure_sections,
                   prose_sections, sec_index, last_index>>

-----------------------------------------------------------------------------
(* FSMValidator._list_episode_ids *)

EpisodePrefix == <<"e", "p", "i", "s", "o", "d", "e", "-">>
MdSuffix == <<".", "m", "d">>

\* config.TRIAD_FILES
TRIAD_FILES ==
    {<<"C", "A", "N", "O", "N", ".", "m", "d">>,
     <<"V", "O", "C", "A", "B", "U", "L", "A", "R", "Y", ".", "m", "d">>,
     <<"R", "E", "A", "D", "M", "E", ".", "m", "d">>}

\* the pattern with any positive number of digits
MatchesEpisodeNameAnyDigits(name) ==
    /\ StartsWith(name, EpisodePrefix)
    /\ EndsWith(name, MdSuffix)
    /\ Len(name) > Len(EpisodePrefix) + Len(MdSuffix)
    /\ \A i \in (Len(EpisodePrefix) + 1)..(Len(name) - Len(MdSuffix)) :
           IsDigit(name[i])

\* line 267: re.match(r"^episode-\d{2}\.md$", name)
MatchesEpisodeName(name) ==
    /\ Len(name) = Len(EpisodePrefix) + 2 + Len(MdSuffix)
    /\ StartsWith(name, EpisodePrefix)
    /\ IsDigit(name[Len(EpisodePrefix) + 1])
    /\ IsDigit(name[Len(EpisodePrefix) + 2])
    /\ EndsWith(name, MdSuffix)

\* line 275: name[len("episode-"):-len(".md")]
IdPart(name) == SubSeq(name, Len(EpisodePrefix) + 1, Len(name) - Len(MdSuffix))

\* lines 274-277, applied whatever the pattern test said: the ID set after
\* the file called name
IdsAfter(ids, name) ==
    IF StartsWith(name, EpisodePrefix) /\ EndsWith(name, MdSuffix)
          /\ IdPart(name) # <<>>
    THEN ids \cup {IdPart(name)}
    ELSE ids

\* format_artifact_path(entry): the path of the entry below the root
EpisodeArtifact(name) ==
    <<"e", "p", "i", "s", "o", "d", "e", "s", "/">> \o name

\* lines 258-260: ids = set(); a missing directory returns it at once
ListEpisodeIdsBegin ==
    /\ pc = "list_episode_ids"
    /\ episode_ids' = {}
    /\ ep_seen' = {}
    /\ pc' = IF episodes_dir.exists THEN "episodes_loop"
             ELSE Return("list_episode_ids")
    /\ UNCHANGED <<runs_vars, runner_vars, reindex_vars, user_guide, episodes_dir, entry, ledger_file, prose_file,
                   outline_file, violations, line_number, expected_next_id,
                   asset_ids, asset_sources, missing, src_index,
                   structure_sections, prose_sections, sec_index, last_index>>

\* lines 262-277: one entry of iterdir(), which yields the entries in
\* arbitrary order
ListEpisodeEntry ==
    /\ pc = "episodes_loop"
    /\ \E e \in episodes_dir.entries \ ep_seen :
           /\ ep_seen' = ep_seen \cup {e}
           /\ IF ~e.is_file \/ e.name \in TRIAD_FILES
              THEN UNCHANGED <<violations, episode_ids>>
              ELSE /\ violations' =
                        IF ~MatchesEpisodeName(e.name)
                        THEN AddViolation(violations, EpisodeArtifact(e.name),
                                 "USER_GUIDE_ASSET", MsgEpisodeFormat,
                                 e.name, <<>>, NoLine)
                        ELSE violations
                   /\ episode_ids' = IdsAfter(episode_ids, e.name)
    /\ UNCHANGED <<runs_vars, runner_vars, reindex_vars, user_guide, episodes_dir, entry, pc, ledger_file, prose_file,
                   outline_file, line_number, expected_next_id, asset_ids,
                   asset_sources, missing, src_index, structure_sections,
                   prose_sections, sec_index, last_index>>

\* line 279: iterdir() is exhausted
ListEpisodeIdsReturn ==
    /\ pc = "episodes_loop"
    /\ ep_seen = episodes_dir.entries
    /\ pc' = Return("list_episode_ids")
    /\ UNCHANGED <<runs_vars, runner_vars, reindex_vars, user_guide, episodes_dir, ep_seen, entry,
                   ledger_file,
                   prose_file, outline_file, violations, line_number,
                   expected_next_id, asset_ids, asset_sources, episode_ids,
                   missing, src_index, structure_sections, prose_sections,
                   sec_index, last_index>>

-----------------------------------------------------------------------------
(* FSMValidator.validate *)

\* lines 177-186: without a user-guide directory validate returns the empty
\* list at once; otherwise the calls of lines 187-199 follow, in Return's
\* order, and line 201 returns self.violations
ValidateBegin ==
    /\ pc = "validate"
    /\ pc' = IF user_guide THEN "parse_asset_ledger" ELSE "done"
    /\ UNCHANGED <<runs_vars, runner_vars, reindex_vars, user_guide, episodes_dir, ep_seen, entry, ledger_file,
                   prose_file, outline_file, violations, line_number,
                   expected_next_id, asset_ids, asset_sources, episode_ids,
                   missing, src_index, structure_sections, prose_sections,
                   sec_index, last_index>>

-----------------------------------------------------------------------------
(* A second call of FSMValidator.validate on the unchanged tree *)

\* the caller keeps the list the first call returned, constructs a new
\* FSMValidator (Validator.__init__, lines 15-17: violations = []) and calls
\* its validate()
ValidateAgainFresh ==
    /\ pc = "done"
    /\ run = "first"
    /\ first_result' = violations
    /\ violations' = <<>>
    /\ run' = "fresh"
    /\ pc' = "validate"
    /\ UNCHANGED <<runner_vars, reindex_vars, user_guide, episodes_dir,
                   ep_seen, entry, ledger_file, prose_file, outline_file,
                   line_number, expected_next_id, asset_ids, asset_sources,
                   episode_ids, missing, src_index, structure_sections,
                   prose_sections, sec_index, last_index>>

\* the caller keeps the list the first call returned and calls validate() on
\* the same FSMValidator: nothing in validate (lines 175-201) touches
\* self.violations before the checks append to it
ValidateAgainSameInstance ==
    /\ pc = "done"
    /\ run = "first"
    /\ first_result' = violations
    /\ run' = "same"
    /\ pc' = "validate"
    /\ UNCHANGED <<runner_vars, reindex_vars, user_guide, episodes_dir,
                   ep_seen, entry, ledger_file, prose_file, outline_file,
                   violations, line_number, expected_next_id, asset_ids,
                   asset_sources, episode_ids, missing, src_index,
                   structure_sections, prose_sections, sec_index, last_index>>

-----------------------------------------------------------------------------
(* FSMValidatorRunner.validate_all (validate.py) *)

\* validate.py lines 62-68: the validators the runner is configured with
ValidatorClasses ==
    <<"TriadValidator", "RequiredArtifactsValidator", "TerminologyValidator",
      "FSMValidator", "FSMSpecNamingValidator">>

MsgValidatorFailed == "Validator failed: {0}"

\* validate.py lines 80-85: the entry appended for a validator that raised e
FailureEntry(class, e) ==
    [artifact |-> class, line |-> NoLine, requirement |-> "validation_protocol",
     details |-> <<MsgValidatorFailed, e, <<>>>>]

\* a dict assignment that stores 1 whatever was counted before
CountOnce(counts, req) ==
    IF \E i \in 1..Len(counts) : counts[i].key = req
    THEN [i \in 1..Len(counts) |->
            IF counts[i].key = req THEN [key |-> req, count |-> 1] ELSE counts[i]]
    ELSE Append(counts, [key |-> req, count |-> 1])

\* validate.py line 97: violation_types[req] = violation_types.get(req, 0) + 1
CountOne(counts, req) ==
    IF \E i \in 1..Len(counts) : counts[i].key = req
    THEN [i \in 1..Len(counts) |->
            IF counts[i].key = req
            THEN [key |-> req, count |-> counts[i].count + 1]
            ELSE counts[i]]
    ELSE Append(counts, [key |-> req, count |-> 1])

\* validate.py lines 94-97: the loop over all_violations
RECURSIVE ByRequirement(_, _)
ByRequirement(vs, counts) ==
    IF vs = <<>> THEN counts
    ELSE ByRequirement(Tail(vs), CountOne(counts, Head(vs).requirement))

\* validate.py line 72
ValidateAllBegin ==
    /\ pc = "validate_all"
    /\ all_violations' = <<>>
    /\ validator_index' = 0
    /\ pc' = "runner_loop"
    /\ UNCHANGED <<validator_outcomes, result, runs_vars, reindex_vars,
                   user_guide, episodes_dir, ep_seen, entry, ledger_file,
                   prose_file, outline_file, violations, line_number,
                   expected_next_id, asset_ids, asset_sources, episode_ids,
                   missing, src_index, structure_sections, prose_sections,
                   sec_index, last_index>>

\* validate.py lines 74-85: one validator; what it returns is appended, what
\* it raises is caught and appended as an entry of its own
RunValidator ==
    /\ pc = "runner_loop"
    /\ validator_index < Len(ValidatorClasses)
    /\ LET k == validator_index + 1
           o == validator_outcomes[k]
       IN  /\ all_violations' =
                  IF o.raises
                  THEN Append(all_violations, FailureEntry(ValidatorClasses[k], o.error))
                  ELSE all_violations \o o.violations
           /\ validator_index' = k
    /\ UNCHANGED <<validator_outcomes, result, runs_vars, reindex_vars,
                   user_guide, episodes_dir, ep_seen, entry, pc, ledger_file,
                   prose_file, outline_file, violations, line_number,
                   expected_next_id, asset_ids, asset_sources, episode_ids,
                   missing, src_index, structure_sections, prose_sections,
                   sec_index, last_index>>

\* validate.py lines 87-105: the summary and the ValidationResult
ValidateAllReturn ==
    /\ pc = "runner_loop"
    /\ validator_index = Len(ValidatorClasses)
    /\ result' =
           [returned |-> TRUE,
            valid |-> (Len(all_violations) = 0),
            violations |-> all_violations,
            summary |-> [total_violations |-> Len(all_violations),
                         validators_run |-> Len(ValidatorClasses),
                         by_requirement |-> ByRequirement(all_violations, <<>>)]]
    /\ pc' = "done"
    /\ UNCHANGED <<validator_outcomes, validator_index, all_violations,
                   runs_vars, reindex_vars, user_guide, episodes_dir, ep_seen,
                   entry, ledger_file, prose_file, outline_file, violations,
                   line_number, expected_next_id, asset_ids, asset_sources,
                   episode_ids, missing, src_index, structure_sections,
                   prose_sections, sec_index, last_index>>

-----------------------------------------------------------------------------
(* REINDEXManager (reindex.py) *)

\* reindex.py line 24
VALID_STATES == {"episodes", "assets", "prose", "output"}

\* no REINDEX.md in the state directory
NoMarker ==
    [exists |-> FALSE, started |-> 0, reason |-> "", changes |-> "",
     impacts |-> ""]

\* no command has run yet
NoOutcome ==
    [command |-> "none", state |-> "none", answer |-> <<>>, status |-> "none"]

\* str.lower() left out: the answer compared as typed
LowerAsTyped(text) == text

\* str.lower(), on the letters an answer is made of
LowerChar(c) ==
    CASE c = "Y" -> "y"
      [] c = "N" -> "n"
      [] OTHER -> c

Lower(text) == [i \in 1..Len(text) |-> LowerChar(text[i])]

\* reindex.py lines 89, 93, 97: the text, or the placeholder when it is empty
OrDefault(text, default) == IF text # "" THEN text ELSE default

\* reindex.py lines 79-115: what REINDEX.md says
GenerateReindexContent(timestamp, reason, changes, impacts) ==
    [exists |-> TRUE,
     started |-> timestamp,
     reason |-> OrDefault(reason, "(No reason provided)"),
     changes |-> OrDefault(changes, "(Changes to be documented)"),
     impacts |-> OrDefault(impacts, "(Downstream impacts to be analyzed)")]

\* reindex.py lines 39-41, for a valid state
IsReindexActive(state) == markers[state].exists

Ended(command, state, answer, status) ==
    [command |-> command, state |-> state, answer |-> answer, status |-> status]

\* reindex.py lines 51-67: start_reindex(state, reason, changes, impacts) at
\* the time now
StartReindex(state, now, reason, changes, impacts) ==
    /\ IF state \notin VALID_STATES
       THEN /\ outcome' = Ended("start", state, <<>>, "ValueError")
            /\ UNCHANGED markers
       ELSE IF state \notin state_dirs
       THEN /\ outcome' = Ended("start", state, <<>>, "FileNotFoundError")
            /\ UNCHANGED markers
       ELSE IF IsReindexActive(state)
       THEN /\ outcome' = Ended("start", state, <<>>, "exit 1")
            /\ UNCHANGED markers
       ELSE /\ markers' = [markers EXCEPT ![state] =
                               GenerateReindexContent(now, reason, changes, impacts)]
            /\ outcome' = Ended("start", state, <<>>, "returned")
    /\ UNCHANGED <<state_dirs, runs_vars, runner_vars, user_guide,
                   episodes_dir, ep_seen, entry, pc, ledger_file, prose_file,
                   outline_file, violations, line_number, expected_next_id,
                   asset_ids, asset_sources, episode_ids, missing, src_index,
                   structure_sections, prose_sections, sec_index, last_index>>

\* reindex.py lines 117-142 and 151-168: complete_reindex and abort_reindex
\* differ in what they print only; response is what the user types
RemoveMarker(command, state, response) ==
    /\ IF state \notin VALID_STATES
       THEN /\ outcome' = Ended(command, state, <<>>, "ValueError")
            /\ UNCHANGED markers
       ELSE IF ~IsReindexActive(state)
       THEN /\ outcome' = Ended(command, state, <<>>, "exit 1")
            /\ UNCHANGED markers
       ELSE IF Lower(response) # <<"y">>
       THEN /\ outcome' = Ended(command, state, response, "exit 0")
            /\ UNCHANGED markers
       ELSE /\ markers' = [markers EXCEPT ![state] = NoMarker]
            /\ outcome' = Ended(command, state, response, "returned")
    /\ UNCHANGED <<state_dirs, runs_vars, runner_vars, user_guide,
                   episodes_dir, ep_seen, entry, pc, ledger_file, prose_file,
                   outline_file, violations, line_number, expected_next_id,
                   asset_ids, asset_sources, episode_ids, missing, src_index,
                   structure_sections, prose_sections, sec_index, last_index>>

-----------------------------------------------------------------------------
(* Inputs of _parse_asset_ledger: SpecLedger *)

NoFile == [exists |-> FALSE, lines |-> <<>>]

File(ls) == [exists |-> TRUE, lines |-> ls]

\* a directory that does not exist
NoDir == [exists |-> FALSE, entries |-> {}]

\* a directory holding the given entries, each a name and whether it is a
\* regular file
Dir(es) == [exists |-> TRUE, entries |-> es]

RECURSIVE SeqsUpTo(_, _)
SeqsUpTo(S, n) ==
    IF n = 0 THEN {<<>>}
    ELSE LET shorter == SeqsUpTo(S, n - 1)
         IN  shorter \cup {Append(s, x) : s \in {t \in shorter : Len(t) = n - 1}, x \in S}

\* the text asset-000n, written out independently of the code's formatting
IdText(n) == AssetPrefix \o <<"0", "0", "0", DigitChars[n + 1]>>

\* "| <id> | n | t | <source> |"
Row(id, source) ==
    <<"|", " ">> \o id \o <<" ", "|", " ", "n", " ", "|", " ", "t", " ", "|", " ">>
                 \o source \o <<" ", "|">>

HeaderLine == <<"|", " ", "I", "D", " ", "|">>

Ep01 == <<"0", "1">>

WellFormedIds == {IdText(n) : n \in 1..MaxId}

MalformedIds == {AssetPrefix \o <<"1">>, AssetPrefix \o <<"0", "0", "0", "0", "2">>}

LedgerLines ==
    {HeaderLine} \cup {Row(id, Ep01) : id \in WellFormedIds \cup MalformedIds}

\* no ValidationResult has been returned yet
NoResult ==
    [returned |-> FALSE, valid |-> FALSE, violations |-> <<>>,
     summary |-> [total_violations |-> 0, validators_run |-> 0,
                  by_requirement |-> <<>>]]

\* a first call of validate() on the tree
InitOneRun ==
    /\ run = "first"
    /\ first_result = <<>>

\* the validator is used without the runner
InitNoRunner ==
    /\ validator_outcomes = <<>>
    /\ validator_index = 0
    /\ all_violations = <<>>
    /\ result = NoResult

\* the REINDEX tool is not used
InitNoReindex ==
    /\ state_dirs = {}
    /\ markers = [s \in VALID_STATES |-> NoMarker]
    /\ outcome = NoOutcome

InitCommon ==
    /\ violations = <<>>
    /\ line_number = 0
    /\ expected_next_id = 0
    /\ asset_ids = {}
    /\ asset_sources = <<>>
    /\ missing = {}
    /\ src_index = 0
    /\ structure_sections = <<>>
    /\ prose_sections = <<>>
    /\ sec_index = 0
    /\ last_index = 0
    /\ ep_seen = {}
    /\ InitOneRun
    /\ InitNoRunner
    /\ InitNoReindex

InitLedger ==
    /\ entry = "parse_asset_ledger"
    /\ user_guide = TRUE
    /\ episodes_dir = NoDir
    /\ pc = "parse_asset_ledger"
    /\ ledger_file \in {NoFile} \cup {File(ls) : ls \in SeqsUpTo(LedgerLines, MaxLedgerLines)}
    /\ prose_file = NoFile
    /\ outline_file = NoFile
    /\ episode_ids = {}
    /\ InitCommon

NextLedger ==
    \/ ParseAssetLedgerBegin
    \/ ParseLedgerLine
    \/ ParseAssetLedgerReturn

SpecLedger == InitLedger /\ [][NextLedger]_vars

-----------------------------------------------------------------------------
(* Properties of _parse_asset_ledger, stated for SpecLedger *)

Done == pc = "done"

GoodRows == {Row(id, Ep01) : id \in WellFormedIds}

BadRows == {Row(id, Ep01) : id \in MalformedIds}

RowId(line) == CHOOSE id \in WellFormedIds \cup MalformedIds : line = Row(id, Ep01)

RowNumber(line) == CHOOSE n \in 1..MaxId : line = Row(IdText(n), Ep01)

\* the numbers of the well-formed rows of the ledger, in file order
RECURSIVE RowNumbers(_)
RowNumbers(ls) ==
    IF ls = <<>> THEN <<>>
    ELSE IF Head(ls) \in GoodRows
         THEN <<RowNumber(Head(ls))>> \o RowNumbers(Tail(ls))
         ELSE RowNumbers(Tail(ls))

\* the file position of the k-th well-formed row
GoodRowLine(ls, k) ==
    CHOOSE i \in 1..Len(ls) :
        /\ ls[i] \in GoodRows
        /\ Cardinality({j \in 1..i : ls[j] \in GoodRows}) = k

Sequential(nums) == \A i \in 1..Len(nums) : nums[i] = i

\* rows 1..k-1, then a jump forward at row k, then consecutive numbers again
GapAt(nums, k) ==
    /\ k \in 1..Len(nums)
    /\ nums[k] > k
    /\ \A i \in 1..(k - 1) : nums[i] = i
    /\ \A i \in (k + 1)..Len(nums) : nums[i] = nums[i - 1] + 1

NoBadRows(ls) == \A i \in 1..Len(ls) : ls[i] \notin BadRows

\* C1: a ledger whose well-formed rows are sequential but for one gap before
\* row k yields exactly one violation: the sequential-order violation on the
\* line of the row after the gap, citing the expected ID asset-000k.
C1_SingleGapOneViolation ==
    (Done /\ ledger_file.exists /\ NoBadRows(ledger_file.lines)) =>
        LET ls == ledger_file.lines
            nums == RowNumbers(ls)
        IN  \A k \in 1..Len(nums) :
                GapAt(nums, k) =>
                    violations =
                        <<[artifact |-> LedgerArtifact,
                           line |-> GoodRowLine(ls, k),
                           requirement |-> "USER_GUIDE_ASSET",
                           details |-> <<MsgNotSequential, IdText(nums[k]), IdText(k)>>]>>

\* rows 1, 2, 4 parsed to the end, with the one violation citing asset-0003
C1_Witness ==
    /\ Done
    /\ ledger_file.exists
    /\ RowNumbers(ledger_file.lines) = <<1, 2, 4>>
    /\ NoBadRows(ledger_file.lines)
    /\ Len(violations) = 1
    /\ violations[1].details[3] = IdText(3)

\* C2: a ledger whose rows are asset-0001 .. asset-000N in file order yields
\* no violation and the ID set holding exactly those N IDs.
C2_SequentialLedgerClean ==
    (Done /\ ledger_file.exists /\ NoBadRows(ledger_file.lines)
          /\ Sequential(RowNumbers(ledger_file.lines))) =>
        /\ violations = <<>>
        /\ asset_ids = {IdText(i) : i \in 1..Len(RowNumbers(ledger_file.lines))}

C2_Witness ==
    /\ Done
    /\ ledger_file.exists
    /\ RowNumbers(ledger_file.lines) = <<1, 2, 3>>
    /\ NoBadRows(ledger_file.lines)
    /\ Cardinality(asset_ids) = 3

\* exactly one line of the file is a row with a malformed ID, at position p
OneBadRowAt(ls, p) ==
    /\ p \in 1..Len(ls)
    /\ ls[p] \in BadRows
    /\ \A i \in 1..Len(ls) : i # p => ls[i] \notin BadRows

\* C3: one row with a malformed ID anywhere among sequential well-formed rows
\* yields exactly one violation, the format violation on that row's line, and
\* no sequential-order violation.
C3_MalformedRowIsolated ==
    (Done /\ ledger_file.exists /\ Sequential(RowNumbers(ledger_file.lines))) =>
        LET ls == ledger_file.lines
        IN  \A p \in 1..Len(ls) :
                OneBadRowAt(ls, p) =>
                    violations =
                        <<[artifact |-> LedgerArtifact,
                           line |-> p,
                           requirement |-> "USER_GUIDE_ASSET",
                           details |-> <<MsgBadFormat, RowId(ls[p]), <<>>>>]>>

\* asset-0001, asset-1, asset-0002 parsed to the end
C3_Witness ==
    /\ Done
    /\ ledger_file = File(<<Row(IdText(1), Ep01),
                            Row(AssetPrefix \o <<"1">>, Ep01),
                            Row(IdText(2), Ep01)>>)
    /\ Len(violations) = 1

\* C4: every ID in the returned set, and every key of the returned mapping,
\* matches ^asset-\d{4}$.
C4_ReturnedIdsWellFormed ==
    Done =>
        /\ \A id \in asset_ids : MatchesAssetId(id)
        /\ \A i \in 1..Len(asset_sources) : MatchesAssetId(asset_sources[i].id)

-----------------------------------------------------------------------------
(* Inputs and properties of _validate_prose_references, under SpecRefs *)

IdA == IdText(1)
IdB == IdText(2)
IdC == IdText(3)

Space == <<" ">>

\* prose lines: plain text, single and several references, the same ID twice
\* on a line, an ID followed by a further digit, and a token too short to match
RefLines ==
    { <<"x">>,
      IdA,
      IdC,
      IdA \o Space \o IdC,
      IdC \o Space \o IdB,
      <<"(">> \o IdC \o IdC \o <<")">>,
      IdB \o <<"1">>,
      AssetPrefix \o <<"1", "2">> }

KnownIdSets == { {}, {IdA}, {IdA, IdB} }

InitRefs ==
    /\ entry = "validate_prose_references"
    /\ user_guide = TRUE
    /\ episodes_dir = NoDir
    /\ pc = "validate_prose_references"
    /\ prose_file \in {NoFile} \cup {File(ls) : ls \in SeqsUpTo(RefLines, MaxProseLines)}
    /\ ledger_file = NoFile
    /\ outline_file = NoFile
    /\ episode_ids = {}
    /\ violations = <<>>
    /\ line_number = 0
    /\ expected_next_id = 0
    /\ asset_ids \in KnownIdSets
    /\ asset_sources = <<>>
    /\ missing = {}
    /\ src_index = 0
    /\ structure_sections = <<>>
    /\ prose_sections = <<>>
    /\ sec_index = 0
    /\ last_index = 0
    /\ ep_seen = {}
    /\ InitOneRun
    /\ InitNoRunner
    /\ InitNoReindex

NextRefs ==
    \/ ValidateProseReferencesBegin
    \/ ScanProseLine
    \/ ValidateProseReferencesReturn

SpecRefs == InitRefs /\ [][NextRefs]_vars

\* every text of the shape asset-NNNN over the digits in use
AllAssetIds ==
    {AssetPrefix \o <<a, b, c, d>> : a \in {"0"}, b \in {"0"}, c \in {"0", "1"},
                                     d \in {"0", "1", "2", "3"}}

\* x is written somewhere on the line
OccursIn(x, line) ==
    \E i \in 1..(Len(line) - Len(x) + 1) : SubSeq(line, i, i + Len(x) - 1) = x

OccursOnLines(x, ls) == {i \in 1..Len(ls) : OccursIn(x, ls[i])}

Unregistered(ls, ids) ==
    {x \in AllAssetIds : OccursOnLines(x, ls) # {} /\ x \notin ids}

NamedInViolations == {violations[i].details[2] : i \in 1..Len(violations)}

\* C5: the IDs named by the violations are exactly the asset-NNNN texts that
\* occur in the prose and are not in the supplied set, one violation each (so
\* none when every reference is registered).
C5_ReferenceClosure ==
    (Done /\ prose_file.exists) =>
        /\ NamedInViolations = Unregistered(prose_file.lines, asset_ids)
        /\ Len(violations) = Cardinality(Unregistered(prose_file.lines, asset_ids))
        /\ \A i \in 1..Len(violations) : violations[i].details[1] = MsgUnregistered

\* ledger {A, B}, prose referencing A and C: one violation, naming C
C5_Witness ==
    /\ Done
    /\ asset_ids = {IdA, IdB}
    /\ prose_file = File(<<IdA \o Space \o IdC>>)
    /\ Len(violations) = 1
    /\ violations[1].details[2] = IdC

\* C6: no unknown ID is reported twice, and each is reported on the line of
\* its first occurrence in the document.
C6_FirstOccurrenceOnly ==
    (Done /\ prose_file.exists) =>
        /\ \A i, j \in 1..Len(violations) :
               violations[i].details[2] = violations[j].details[2] => i = j
        /\ \A i \in 1..Len(violations) :
               LET on == OccursOnLines(violations[i].details[2], prose_file.lines)
               IN  /\ violations[i].line \in on
                   /\ \A l \in on : violations[i].line <= l

\* an unknown ID on three lines, twice on one of them, reported once at the first
C6_Witness ==
    /\ Done
    /\ prose_file.exists
    /\ Cardinality(OccursOnLines(IdC, prose_file.lines)) = 3
    /\ prose_file.lines[2] = <<"(">> \o IdC \o IdC \o <<")">>
    /\ Len(violations) = 1
    /\ violations[1].line = 1

-----------------------------------------------------------------------------
(* Inputs and properties of _validate_asset_sources, under SpecSources:     *)
(* the ledger is parsed, then its mapping is checked against an episode set *)

Ep02 == <<"0", "2">>
Ep99 == <<"9", "9">>

\* source columns that name no episode: blank, or only commas and spaces
EmptySourceTexts == { <<>>, <<",", " ", ",">> }

SourceTexts ==
    EmptySourceTexts \cup
    { Ep01,
      Ep99,
      Ep01 \o <<",", " ">> \o Ep99,
      Ep99 \o <<",">> \o Ep99,
      Ep99 \o <<",", " ">> \o Ep02 \o <<",">> }

\* "| <id> | n |": a row with no source column at all
ShortRow(id) == <<"|", " ">> \o id \o <<" ", "|", " ", "n", " ", "|">>

SourceRowIds == {IdText(1), IdText(2)}

SourceLedgerLines ==
    {Row(id, src) : id \in SourceRowIds, src \in SourceTexts}
        \cup {ShortRow(id) : id \in SourceRowIds}
        \cup {Row(AssetPrefix \o <<"1">>, Ep99)}

EpisodeIdSets == { {}, {Ep01}, {Ep01, Ep02} }

InitSources ==
    /\ entry = "sources"
    /\ user_guide = TRUE
    /\ episodes_dir = NoDir
    /\ pc = "parse_asset_ledger"
    /\ ledger_file \in {File(ls) : ls \in SeqsUpTo(SourceLedgerLines, MaxSourceRows)}
    /\ prose_file = NoFile
    /\ outline_file = NoFile
    /\ episode_ids \in EpisodeIdSets
    /\ InitCommon

NextSources ==
    \/ ParseAssetLedgerBegin
    \/ ParseLedgerLine
    \/ ParseAssetLedgerReturn
    \/ ValidateAssetSourcesBegin
    \/ ValidateAssetSource
    \/ ValidateAssetSourcesReturn

SpecSources == InitSources /\ [][NextSources]_vars

\* the positions of the missing-episode violations naming an asset
EpisodeViolations(id) ==
    {i \in 1..Len(violations) :
        violations[i].details[1] = MsgNoEpisode /\ violations[i].details[2] = id}

NoSourceViolations(id) ==
    {i \in 1..Len(violations) :
        violations[i].details[1] = MsgNoSource /\ violations[i].details[2] = id}

Range(q) == {q[i] : i \in 1..Len(q)}

\* C7: for an asset with a non-empty source list, the missing-episode
\* violations for it are as many as the DISTINCT listed episodes that are not
\* in the episode set, each at the asset's ledger line.
C7_OnePerDistinctEpisode ==
    Done =>
        \A k \in 1..Len(asset_sources) :
            LET meta == asset_sources[k]
            IN  meta.sources # <<>> =>
                    /\ Cardinality(EpisodeViolations(meta.id)) =
                           Cardinality(Range(meta.sources) \ episode_ids)
                    /\ \A i \in EpisodeViolations(meta.id) :
                           violations[i].line = meta.line

\* What the code does instead: one missing-episode violation for each ENTRY
\* of the list that is not in the episode set (a missing episode listed twice
\* is reported twice), each at the asset's ledger line and naming that entry.
SourcesReportedPerEntry ==
    Done =>
        \A k \in 1..Len(asset_sources) :
            LET meta == asset_sources[k]
                bad == {j \in 1..Len(meta.sources) : meta.sources[j] \notin episode_ids}
                got == EpisodeViolations(meta.id)
            IN  meta.sources # <<>> =>
                    /\ Cardinality(got) = Cardinality(bad)
                    /\ \A i \in got :
                           /\ violations[i].line = meta.line
                           /\ violations[i].artifact = LedgerArtifact
                           /\ violations[i].details[3] \in Range(meta.sources) \ episode_ids
                    /\ \A e \in Range(meta.sources) \ episode_ids :
                           Cardinality({i \in got : violations[i].details[3] = e}) =
                           Cardinality({j \in bad : meta.sources[j] = e})
                    /\ NoSourceViolations(meta.id) = {}

EmptySourceRows ==
    {Row(id, src) : id \in SourceRowIds, src \in EmptySourceTexts}
        \cup {ShortRow(id) : id \in SourceRowIds}

SourceRowId(line) == CHOOSE id \in SourceRowIds : StartsWith(line, <<"|", " ">> \o id \o Space)

\* C8: an asset whose row has no source column, a blank one, or one of only
\* commas and spaces gets exactly one violation from the source check, the
\* 'lists no Source Episode' one at its ledger line, and no missing-episode
\* violation, whatever the episode set.  (The row meant is the asset's last
\* row in the ledger, the one the mapping keeps.)
C8_EmptySourceListOneViolation ==
    Done =>
        LET ls == ledger_file.lines
        IN  \A p \in 1..Len(ls) :
                (/\ ls[p] \in EmptySourceRows
                 /\ \A q \in (p + 1)..Len(ls) :
                        ~StartsWith(ls[q], <<"|", " ">> \o SourceRowId(ls[p]) \o Space)) =>
                    LET id == SourceRowId(ls[p])
                    IN  /\ Cardinality(NoSourceViolations(id)) = 1
                        /\ \A i \in NoSourceViolations(id) :
                               /\ violations[i].line = p
                               /\ violations[i].artifact = LedgerArtifact
                        /\ EpisodeViolations(id) = {}

\* a row whose source column is ", ," checked against a non-empty episode set
C8_Witness ==
    /\ Done
    /\ ledger_file = File(<<Row(IdText(1), Ep01), Row(IdText(2), <<",", " ", ",">>)>>)
    /\ episode_ids = {Ep01}
    /\ Len(violations) = 1
    /\ violations[1].details = <<MsgNoSource, IdText(2), <<>>>>
    /\ violations[1].line = 2

-----------------------------------------------------------------------------
(* Inputs and properties of _validate_structure_order, under SpecStructure: *)
(* outline and prose are parsed, then the order is checked                  *)

Intro == <<"I", "n", "t", "r", "o">>
Background == <<"B", "a", "c", "k", "g", "r", "o", "u", "n", "d">>
Conclusion == <<"C", "o", "n", "c", "l", "u", "s", "i", "o", "n">>

SectionNames == {Intro, Background, Conclusion}

\* "## Section 1: <name>"
OutlineLine(name) == SectionMarker \o <<" ", "1", ":", " ">> \o name

\* "## <name>"
ProseHeading(name) == HeadingMarker \o name

OutlineTitle == <<"#", " ", "S">>
ProseTitle == <<"#", " ", "P">>
TextLine == <<"T", "e", "x", "t", ".">>

OutlineFiles ==
    {File(<<OutlineTitle>> \o ls) :
        ls \in SeqsUpTo({OutlineLine(n) : n \in SectionNames}, MaxSections)}

ProseFiles ==
    {File(<<ProseTitle>> \o ls) :
        ls \in SeqsUpTo({ProseHeading(n) : n \in SectionNames} \cup {TextLine},
                        MaxSections)}

InitStructure ==
    /\ entry = "structure"
    /\ user_guide = TRUE
    /\ episodes_dir = NoDir
    /\ pc = "parse_structure_sections"
    /\ outline_file \in {NoFile} \cup OutlineFiles
    /\ prose_file \in {NoFile} \cup ProseFiles
    /\ ledger_file = NoFile
    /\ episode_ids = {}
    /\ InitCommon

NextStructure ==
    \/ ParseStructureSections
    \/ ParseProseSections
    \/ ValidateStructureOrderBegin
    \/ CheckSection
    \/ ValidateStructureOrderReturn

SpecStructure == InitStructure /\ [][NextStructure]_vars

Names(sections) == [i \in 1..Len(sections) |-> sections[i].name]

\* a occurs in b as a subsequence: in the same relative order, other
\* elements of b interleaved
RECURSIVE IsSubsequence(_, _)
IsSubsequence(a, b) ==
    IF a = <<>> THEN TRUE
    ELSE IF b = <<>> THEN FALSE
    ELSE IF Head(a) = Head(b) THEN IsSubsequence(Tail(a), Tail(b))
    ELSE IsSubsequence(a, Tail(b))

\* C9: when the declared section names occur, in order, as a subsequence of
\* the prose section names, the structure check emits no violation.
C9_SubsequenceNoViolation ==
    (/\ Done
     /\ outline_file.exists
     /\ prose_file.exists
     /\ IsSubsequence(Names(structure_sections), Names(prose_sections))) =>
        violations = <<>>

OutlineIBC ==
    File(<<OutlineTitle, OutlineLine(Intro), OutlineLine(Background),
           OutlineLine(Conclusion)>>)

ProseCIB(ls) ==
    Names(ProseSectionsFrom(ls, 1)) = <<Conclusion, Intro, Background>>

ViolationsNaming(name) ==
    {i \in 1..Len(violations) : violations[i].details[2] = name}

\* C10 as stated: outline [Intro, Background, Conclusion] against prose
\* headings [Conclusion, Intro, Background] gives an out-of-order violation
\* for Intro and none for Background.
C10_IntroOutOfOrder ==
    (Done /\ outline_file = OutlineIBC /\ prose_file.exists
          /\ ProseCIB(prose_file.lines)) =>
        /\ \E i \in ViolationsNaming(Intro) : violations[i].details[1] = MsgOutOfOrder
        /\ ViolationsNaming(Background) = {}

\* C10 as amended: with that outline and that prose, the walk emits exactly
\* one violation: the out-of-order violation for Conclusion, at the prose line
\* of the Conclusion heading; none for Intro and none for Background.
C10_ConclusionOutOfOrder ==
    (Done /\ outline_file = OutlineIBC /\ prose_file.exists
          /\ ProseCIB(prose_file.lines)) =>
        violations =
            <<[artifact |-> ProseArtifact,
               line |-> CHOOSE l \in 1..Len(prose_file.lines) :
                            prose_file.lines[l] = ProseHeading(Conclusion),
               requirement |-> "USER_GUIDE_STRUCTURE",
               details |-> <<MsgOutOfOrder, Conclusion, <<>>>>]>>

C10_Witness ==
    /\ Done
    /\ outline_file = OutlineIBC
    /\ prose_file = File(<<ProseTitle, ProseHeading(Conclusion),
                           ProseHeading(Intro), ProseHeading(Background)>>)
    /\ Len(violations) = 1
    /\ violations[1].line = 2

\* the declared sections found in the prose among the first k of the outline
FoundBefore(k) ==
    {j \in 1..(k - 1) : Found(prose_sections, structure_sections[j].name)}

\* the highest prose index matched by the declared sections before the k-th,
\* -1 when none matched
HighestMatchedBefore(k) ==
    IF FoundBefore(k) = {} THEN -1
    ELSE CHOOSE m \in {FoundIndex(prose_sections, structure_sections[j].name) :
                          j \in FoundBefore(k)} :
             \A j \in FoundBefore(k) :
                 FoundIndex(prose_sections, structure_sections[j].name) <= m

\* C11: during the walk of the declared sections the last-matched prose index
\* never decreases: a step of the walk either leaves it unchanged or replaces
\* it by a strictly greater index.
C11_LastIndexNeverDecreases ==
    [][pc = "structure_loop" => last_index' >= last_index]_vars

\* C12: a declared section whose name equals no prose section name gets
\* exactly one violation, the 'cannot be found in prose' one, with the outline
\* as artifact and the section's outline line as line; the walk goes on to
\* the end of the declared sections, so this holds for every such section.
C12_NotFoundOneViolation ==
    (Done /\ outline_file.exists /\ prose_file.exists) =>
        /\ sec_index = Len(structure_sections)
        /\ \A k \in 1..Len(structure_sections) :
               LET section == structure_sections[k]
               IN  ~Found(prose_sections, section.name) =>
                       /\ Cardinality({i \in ViolationsNaming(section.name) :
                               violations[i].line = section.line}) = 1
                       /\ \A i \in ViolationsNaming(section.name) :
                              /\ violations[i].details[1] = MsgNotFound
                              /\ violations[i].artifact = OutlineArtifact

\* outline [Intro, Conclusion, Background] against prose [Intro, Background]:
\* Conclusion, declared on outline line 3, is reported and the walk reaches
\* Background
C12_Witness ==
    /\ Done
    /\ outline_file = File(<<OutlineTitle, OutlineLine(Intro),
                             OutlineLine(Conclusion), OutlineLine(Background)>>)
    /\ prose_file = File(<<ProseTitle, ProseHeading(Intro),
                           ProseHeading(Background)>>)
    /\ sec_index = 3
    /\ Len(violations) = 1
    /\ violations[1].details = <<MsgNotFound, Conclusion, <<>>>>
    /\ violations[1].line = 3

OutOfOrderViolations(name) ==
    {i \in 1..Len(violations) :
        violations[i].details = <<MsgOutOfOrder, name, <<>>>>}

\* C13: every declared section found in the prose only at an index at or
\* before the highest index matched so far gets exactly one 'out of order'
\* violation, with the prose document as artifact and the prose line of the
\* section as line (so a name has as many such violations as declared
\* sections of that name that are out of order).
C13_OutOfOrderOneViolation ==
    (Done /\ outline_file.exists /\ prose_file.exists) =>
        \A name \in SectionNames :
            Found(prose_sections, name) =>
                LET late == {k \in 1..Len(structure_sections) :
                                /\ structure_sections[k].name = name
                                /\ FoundIndex(prose_sections, name) <=
                                       HighestMatchedBefore(k)}
                IN  /\ Cardinality(OutOfOrderViolations(name)) = Cardinality(late)
                    /\ \A i \in OutOfOrderViolations(name) :
                           /\ violations[i].artifact = ProseArtifact
                           /\ violations[i].line =
                                  prose_sections[FoundIndex(prose_sections, name) + 1].line

\* C18: when the outline document is missing the structure check emits
\* exactly one violation, the missing-outline one with the outline path as
\* artifact and no line, and nothing else, whether or not the prose exists
\* and whatever sections it has.
C18_OutlineMissingOneViolation ==
    (Done /\ ~outline_file.exists) =>
        violations =
            <<[artifact |-> OutlineArtifact, line |-> NoLine,
               requirement |-> "USER_GUIDE_STRUCTURE",
               details |-> <<MsgOutlineMissing, <<>>, <<>>>>]>>

\* no outline, a prose document with three sections
C18_Witness ==
    /\ Done
    /\ ~outline_file.exists
    /\ prose_file.exists
    /\ Len(prose_sections) = 3
    /\ Len(violations) = 1
    /\ violations[1].artifact = OutlineArtifact


-----------------------------------------------------------------------------
(* Inputs and properties of _list_episode_ids, under SpecEpisodes *)

MaxEpisodeFiles == 3

EpisodeFile(digits) == EpisodePrefix \o digits \o MdSuffix

RegularFile(name) == [name |-> name, is_file |-> TRUE]

Subdirectory(name) == [name |-> name, is_file |-> FALSE]

ReadmeName == <<"R", "E", "A", "D", "M", "E", ".", "m", "d">>
NotesName == <<"n", "o", "t", "e", "s", ".", "t", "x", "t">>
DraftsName == <<"d", "r", "a", "f", "t", "s">>

\* two well-named episodes, the two ill-named ones of the tests (one digit,
\* three digits), a name with letters for digits, one with no digits, a triad
\* file, a file of another kind and a subdirectory
EntryPool ==
    {RegularFile(EpisodeFile(<<"0", "1">>)),
     RegularFile(EpisodeFile(<<"0", "2">>)),
     RegularFile(EpisodeFile(<<"1">>)),
     RegularFile(EpisodeFile(<<"0", "0", "1">>)),
     RegularFile(EpisodeFile(<<"a", "b">>)),
     RegularFile(EpisodeFile(<<>>)),
     RegularFile(ReadmeName),
     RegularFile(NotesName),
     Subdirectory(DraftsName)}

EpisodeDirs ==
    {Dir(es) : es \in {t \in SUBSET EntryPool : Cardinality(t) <= MaxEpisodeFiles}}

InitEpisodes ==
    /\ entry = "list_episode_ids"
    /\ user_guide = TRUE
    /\ pc = "list_episode_ids"
    /\ episodes_dir \in {NoDir} \cup EpisodeDirs
    /\ ledger_file = NoFile
    /\ prose_file = NoFile
    /\ outline_file = NoFile
    /\ episode_ids = {}
    /\ InitCommon

NextEpisodes ==
    \/ ListEpisodeIdsBegin
    \/ ListEpisodeEntry
    \/ ListEpisodeIdsReturn

SpecEpisodes == InitEpisodes /\ [][NextEpisodes]_vars

TwoDigitTexts == {<<DigitChars[i], DigitChars[j]>> : i \in 1..10, j \in 1..10}

\* the names episode-NN.md, enumerated
WellNamedEpisodes == {EpisodeFile(d) : d \in TwoDigitTexts}

\* the entries a format violation is due for: regular files, not a triad
\* file, not named episode-NN.md
Offending ==
    {e \in episodes_dir.entries :
        e.is_file /\ e.name \notin TRIAD_FILES /\ e.name \notin WellNamedEpisodes}

FormatViolations(name) ==
    {i \in 1..Len(violations) :
        violations[i].details = <<MsgEpisodeFormat, name, <<>>>>}

\* C14: the set returned by _list_episode_ids is exactly the set of the
\* two-digit IDs NN of the regular files named episode-NN.md; a file of any
\* other name adds nothing to it.
C14_ExactlyTwoDigitIds ==
    (Done /\ episodes_dir.exists) =>
        episode_ids =
            {d \in TwoDigitTexts : RegularFile(EpisodeFile(d)) \in episodes_dir.entries}

\* C15: each regular file that is not a triad file and is not named
\* episode-NN.md gets exactly one format violation (naming it, at its path,
\* with no line), no other entry gets any, and the scan examines every entry:
\* k offending files give exactly k violations.
C15_OneFormatViolationPerOffender ==
    (Done /\ episodes_dir.exists) =>
        /\ ep_seen = episodes_dir.entries
        /\ Len(violations) = Cardinality(Offending)
        /\ \A e \in episodes_dir.entries :
               /\ Cardinality(FormatViolations(e.name)) =
                      IF e \in Offending THEN 1 ELSE 0
               /\ \A i \in FormatViolations(e.name) :
                      /\ violations[i].artifact = EpisodeArtifact(e.name)
                      /\ violations[i].requirement = "USER_GUIDE_ASSET"
                      /\ violations[i].line = NoLine

\* episode-1.md and episode-001.md next to episode-01.md: two violations
C15_Witness ==
    /\ Done
    /\ episodes_dir = Dir({RegularFile(EpisodeFile(<<"0", "1">>)),
                           RegularFile(EpisodeFile(<<"1">>)),
                           RegularFile(EpisodeFile(<<"0", "0", "1">>))})
    /\ Len(violations) = 2
    /\ violations[1].details[2] = EpisodeFile(<<"0", "0", "1">>)
    /\ violations[2].details[2] = EpisodeFile(<<"1">>)

-----------------------------------------------------------------------------
(* Inputs and properties of FSMValidator.validate, under SpecValidate *)

MaxPipeLines == 2

\* no ledger; a header and two sequential rows; a gap and an episode that
\* exists in no directory; a row with two sources; a row with none
PipeLedgers ==
    {NoFile,
     File(<<HeaderLine, Row(IdA, Ep01), Row(IdB, Ep02)>>),
     File(<<Row(IdA, Ep01), Row(IdC, Ep99)>>),
     File(<<Row(IdA, Ep01 \o <<",", " ">> \o Ep02)>>),
     File(<<Row(IdA, <<>>)>>)}

PipeEpisodeDirs ==
    {NoDir,
     Dir({}),
     Dir({RegularFile(EpisodeFile(Ep01))}),
     Dir({RegularFile(EpisodeFile(Ep01)), RegularFile(EpisodeFile(Ep02))}),
     Dir({RegularFile(EpisodeFile(Ep01)), RegularFile(EpisodeFile(<<"1">>))})}

\* prose lines: two headings and two lines of references
PipeProseLines ==
    {ProseHeading(Intro), ProseHeading(Background), IdA, IdC \o Space \o IdB}

PipeProseFiles == {File(ls) : ls \in SeqsUpTo(PipeProseLines, MaxPipeLines)}

PipeOutlines ==
    {NoFile,
     File(<<OutlineTitle, OutlineLine(Intro)>>),
     File(<<OutlineTitle, OutlineLine(Intro), OutlineLine(Background)>>),
     File(<<OutlineTitle, OutlineLine(Background), OutlineLine(Intro)>>)}

\* the documents all live below user-guide: without it none exists
InitValidate ==
    /\ entry = "validate"
    /\ pc = "validate"
    /\ user_guide \in BOOLEAN
    /\ ledger_file \in IF user_guide THEN PipeLedgers ELSE {NoFile}
    /\ episodes_dir \in IF user_guide THEN PipeEpisodeDirs ELSE {NoDir}
    /\ prose_file \in IF user_guide THEN {NoFile} \cup PipeProseFiles ELSE {NoFile}
    /\ outline_file \in IF user_guide THEN PipeOutlines ELSE {NoFile}
    /\ episode_ids = {}
    /\ InitCommon

NextValidate ==
    \/ ValidateBegin
    \/ ParseAssetLedgerBegin
    \/ ParseLedgerLine
    \/ ParseAssetLedgerReturn
    \/ ListEpisodeIdsBegin
    \/ ListEpisodeEntry
    \/ ListEpisodeIdsReturn
    \/ ValidateProseReferencesBegin
    \/ ScanProseLine
    \/ ValidateProseReferencesReturn
    \/ ValidateAssetSourcesBegin
    \/ ValidateAssetSource
    \/ ValidateAssetSourcesReturn
    \/ ParseStructureSections
    \/ ParseProseSections
    \/ ValidateStructureOrderBegin
    \/ CheckSection
    \/ ValidateStructureOrderReturn

SpecValidate == InitValidate /\ [][NextValidate]_vars

LedgerMessages == {MsgLedgerMissing, MsgBadFormat, MsgNotSequential}
EpisodeMessages == {MsgEpisodeFormat}
ReferenceMessages == {MsgProseMissing, MsgUnregistered}
SourceMessages == {MsgNoSource, MsgNoEpisode}
StructureMessages == {MsgOutlineMissing, MsgNotFound, MsgOutOfOrder}

\* the violations whose message is one of the given ones
ViolationsOf(messages) ==
    {i \in 1..Len(violations) : violations[i].details[1] \in messages}

UnregisteredViolations(id) ==
    {i \in 1..Len(violations) :
        violations[i].details = <<MsgUnregistered, id, <<>>>>}

\* C16: when the ledger file does not exist, the ledger parse emits exactly
\* one violation (the first of the list) and returns an empty ID set and an
\* empty mapping; validate still runs to its end (no step before the end is
\* without a successor); the source check emits nothing; and each asset ID
\* written in the prose is reported exactly once as unregistered.
C16_MissingLedgerTolerated ==
    (user_guide /\ ~ledger_file.exists) =>
        /\ ~Done => ENABLED NextValidate
        /\ pc \notin {"validate", "parse_asset_ledger"} =>
               /\ asset_ids = {}
               /\ asset_sources = <<>>
               /\ ViolationsOf(LedgerMessages) = {1}
               /\ violations[1] =
                      [artifact |-> LedgerArtifact, line |-> NoLine,
                       requirement |-> "USER_GUIDE_ASSET",
                       details |-> <<MsgLedgerMissing, <<>>, <<>>>>]
        /\ Done =>
               /\ ViolationsOf(SourceMessages) = {}
               /\ prose_file.exists =>
                      \A x \in AllAssetIds :
                          Cardinality(UnregisteredViolations(x)) =
                              IF OccursOnLines(x, prose_file.lines) # {} THEN 1 ELSE 0

\* no ledger, a prose that names asset-0001 on two lines and asset-0003 and
\* asset-0002 never: one ledger violation, one unregistered reference
C16_Witness ==
    /\ Done
    /\ ~ledger_file.exists
    /\ prose_file = File(<<IdA, IdA>>)
    /\ episodes_dir = Dir({RegularFile(EpisodeFile(Ep01))})
    /\ outline_file = File(<<OutlineTitle, OutlineLine(Intro)>>)
    /\ Len(violations) = 3
    /\ violations[2].details = <<MsgUnregistered, IdA, <<>>>>
    /\ violations[2].line = 1

\* C17: when the prose document is missing, the reference check emits exactly
\* one violation, the 'missing prose' one, and scans nothing (no reference is
\* reported); and when the outline exists the structure check adds no
\* violation to the run.
C17_MissingProseFlaggedOnce ==
    (Done /\ user_guide /\ ~prose_file.exists) =>
        /\ Cardinality(ViolationsOf(ReferenceMessages)) = 1
        /\ \A i \in ViolationsOf(ReferenceMessages) :
               /\ violations[i].details = <<MsgProseMissing, <<>>, <<>>>>
               /\ violations[i].artifact = ProseArtifact
               /\ violations[i].line = NoLine
        /\ missing = {}
        /\ prose_sections = <<>>
        /\ outline_file.exists => ViolationsOf(StructureMessages) = {}

\* a clean ledger, its episodes, an outline of two sections and no prose:
\* the missing-prose violation is the only one of the run
C17_Witness ==
    /\ Done
    /\ ~prose_file.exists
    /\ ledger_file = File(<<HeaderLine, Row(IdA, Ep01), Row(IdB, Ep02)>>)
    /\ episodes_dir = Dir({RegularFile(EpisodeFile(Ep01)), RegularFile(EpisodeFile(Ep02))})
    /\ outline_file = File(<<OutlineTitle, OutlineLine(Intro), OutlineLine(Background)>>)
    /\ Len(structure_sections) = 2
    /\ Len(violations) = 1

\* C19: when the episode directory does not exist, _list_episode_ids returns
\* the empty set and emits no violation, and the source check reports every
\* source episode declared by an asset of the ledger as missing, at the
\* asset's ledger line.
C19_MissingEpisodeDirectory ==
    (user_guide /\ ~episodes_dir.exists) =>
        /\ episode_ids = {}
        /\ ViolationsOf(EpisodeMessages) = {}
        /\ Done =>
               \A k \in 1..Len(asset_sources) :
                   LET meta == asset_sources[k]
                   IN  \A e \in Range(meta.sources) :
                           \E i \in EpisodeViolations(meta.id) :
                               /\ violations[i].details[3] = e
                               /\ violations[i].line = meta.line
                               /\ violations[i].artifact = LedgerArtifact

\* no episode directory, one asset declaring episodes 01 and 02: both are
\* reported
C19_Witness ==
    /\ Done
    /\ ~episodes_dir.exists
    /\ ledger_file = File(<<Row(IdA, Ep01 \o <<",", " ">> \o Ep02)>>)
    /\ asset_sources = <<[id |-> IdA, line |-> 1, sources |-> <<Ep01, Ep02>>]>>
    /\ Cardinality(EpisodeViolations(IdA)) = 2

\* which of the five checks of validate emitted a violation, by its message
CheckOf(v) ==
    CASE v.details[1] \in LedgerMessages -> 1
      [] v.details[1] \in EpisodeMessages -> 2
      [] v.details[1] \in ReferenceMessages -> 3
      [] v.details[1] \in SourceMessages -> 4
      [] v.details[1] \in StructureMessages -> 5

\* C20: in the list validate returns the violations are grouped by check, in
\* the order ledger parse, episode filenames, prose references, source
\* episodes, structure: none of a later check precedes one of an earlier.
C20_GroupedInCheckOrder ==
    (entry = "validate" /\ Done) =>
        \A i, j \in 1..Len(violations) :
            i < j => CheckOf(violations[i]) <= CheckOf(violations[j])

\* a run in which each of the five checks emits a violation
C20_Witness ==
    /\ entry = "validate"
    /\ Done
    /\ {CheckOf(violations[i]) : i \in 1..Len(violations)} = 1..5

-----------------------------------------------------------------------------
(* Further properties of _parse_asset_ledger, under SpecLedger *)

\* the number the k-th well-formed row is expected to carry: one more than
\* the row before it, 1 for the first
ExpectedAt(nums, k) == IF k = 1 THEN 1 ELSE nums[k - 1] + 1

NotSequentialAt(line) ==
    {i \in 1..Len(violations) :
        violations[i].details[1] = MsgNotSequential /\ violations[i].line = line}

\* C26: throughout the ledger scan the expected-next counter is 1 while no
\* well-formed row has been read and n+1 once the last well-formed row read
\* has suffix n, whatever that row's own verdict and whatever other lines
\* (headers, malformed rows) came in between; and at the end a well-formed
\* row carries a sequential-order violation exactly when its suffix differs
\* from the suffix of the previous well-formed row plus one (from 1 for the
\* first).
C26_CounterFollowsLastGoodRow ==
    (ledger_file.exists /\ pc \in {"ledger_loop", "done"}) =>
        LET ls == ledger_file.lines
            read == RowNumbers(SubSeq(ls, 1, line_number))
            nums == RowNumbers(ls)
        IN  /\ expected_next_id =
                   IF read = <<>> THEN 1 ELSE read[Len(read)] + 1
            /\ Done =>
                   \A k \in 1..Len(nums) :
                       Cardinality(NotSequentialAt(GoodRowLine(ls, k))) =
                           IF nums[k] # ExpectedAt(nums, k) THEN 1 ELSE 0

\* asset-0003, a malformed row, asset-0004: the first row is out of sequence
\* and still sets the counter to 4, the malformed row leaves it there, the
\* last row is in sequence
C26_Witness ==
    /\ Done
    /\ ledger_file = File(<<Row(IdText(3), Ep01),
                            Row(AssetPrefix \o <<"1">>, Ep01),
                            Row(IdText(4), Ep01)>>)
    /\ expected_next_id = 5
    /\ Len(violations) = 2
    /\ violations[1].details = <<MsgNotSequential, IdText(3), IdText(1)>>
    /\ violations[2].details[1] = MsgBadFormat

-----------------------------------------------------------------------------
(* Further properties of the ledger parse followed by the source check,     *)
(* under SpecSources                                                        *)

\* the source lists the source columns of the inputs stand for
SourcesOfText(text) ==
    CASE text = Ep01 -> <<Ep01>>
      [] text = Ep99 -> <<Ep99>>
      [] text = Ep01 \o <<",", " ">> \o Ep99 -> <<Ep01, Ep99>>
      [] text = Ep99 \o <<",">> \o Ep99 -> <<Ep99, Ep99>>
      [] text = Ep99 \o <<",", " ">> \o Ep02 \o <<",">> -> <<Ep99, Ep02>>
      [] OTHER -> <<>>

\* the rows of the ledger that carry the well-formed ID asset-000n
RowsOf(ls, n) ==
    {p \in 1..Len(ls) : StartsWith(ls[p], <<"|", " ">> \o IdText(n) \o Space)}

WellFormedRows(ls) == UNION {RowsOf(ls, n) : n \in 1..MaxId}

SuffixAt(ls, p) == CHOOSE n \in 1..MaxId : p \in RowsOf(ls, n)

Last(S) == CHOOSE p \in S : \A q \in S : q <= p

\* the number expected of the well-formed row on line p
ExpectedOnLine(ls, p) ==
    LET before == {q \in WellFormedRows(ls) : q < p}
    IN  IF before = {} THEN 1 ELSE SuffixAt(ls, Last(before)) + 1

SourceListAt(ls, p) ==
    IF \E text \in SourceTexts : ls[p] = Row(IdText(SuffixAt(ls, p)), text)
    THEN SourcesOfText(CHOOSE text \in SourceTexts :
                           ls[p] = Row(IdText(SuffixAt(ls, p)), text))
    ELSE <<>>

\* C27: when a well-formed ID stands on two or more ledger rows, each later
\* occurrence draws from the ledger scan nothing but a sequential-order
\* violation, and that exactly when its suffix is not the expected next; the
\* returned ID set holds the ID and the mapping has one entry for it, with
\* the line and the source list of the last such row; and every violation of
\* the source check for that ID is at the line of the last row.
C27_DuplicateIdLastRowWins ==
    Done =>
        LET ls == ledger_file.lines
        IN  \A n \in 1..MaxId :
                Cardinality(RowsOf(ls, n)) >= 2 =>
                    LET id == IdText(n)
                        last == Last(RowsOf(ls, n))
                    IN  /\ \A p \in RowsOf(ls, n) :
                               LET got == {i \in ViolationsOf(LedgerMessages) :
                                              violations[i].line = p}
                               IN  /\ \A i \in got :
                                          violations[i].details[1] = MsgNotSequential
                                   /\ Cardinality(got) =
                                          IF n # ExpectedOnLine(ls, p) THEN 1 ELSE 0
                        /\ id \in asset_ids
                        /\ Cardinality({k \in 1..Len(asset_sources) :
                                           asset_sources[k].id = id}) = 1
                        /\ \A k \in 1..Len(asset_sources) :
                               asset_sources[k].id = id =>
                                   /\ asset_sources[k].line = last
                                   /\ asset_sources[k].sources = SourceListAt(ls, last)
                        /\ \A i \in ViolationsOf(SourceMessages) :
                               violations[i].details[2] = id =>
                                   violations[i].line = last

\* asset-0001 on two rows, the first citing episode 01 and the second the
\* missing episode 99: one sequence violation and one missing-episode
\* violation, both on line 2
C27_Witness ==
    /\ Done
    /\ ledger_file = File(<<Row(IdText(1), Ep01), Row(IdText(1), Ep99)>>)
    /\ episode_ids = {Ep01}
    /\ asset_sources = <<[id |-> IdText(1), line |-> 2, sources |-> <<Ep99>>]>>
    /\ Len(violations) = 2
    /\ violations[1].details = <<MsgNotSequential, IdText(1), IdText(2)>>
    /\ violations[2].details = <<MsgNoEpisode, IdText(1), Ep99>>
    /\ violations[2].line = 2

-----------------------------------------------------------------------------
(* Line order of the violations of one scan.  SpecScans runs either the     *)
(* ledger scan or the prose reference scan, on the inputs of SpecLedger and *)
(* of SpecRefs                                                              *)

InitScans == InitLedger \/ InitRefs

NextScans ==
    \/ ParseAssetLedgerBegin
    \/ ParseLedgerLine
    \/ ParseAssetLedgerReturn
    \/ ValidateProseReferencesBegin
    \/ ScanProseLine
    \/ ValidateProseReferencesReturn

SpecScans == InitScans /\ [][NextScans]_vars

LinesAscend(vs) ==
    \A i, j \in 1..Len(vs) : i < j => vs[i].line <= vs[j].line

\* C21: at every moment of the ledger scan and of the prose reference scan,
\* the violations the scan has emitted so far carry non-decreasing line
\* numbers in the order of emission.
C21_ScanLinesAscend == LinesAscend(violations)

\* a ledger scan that has emitted violations on three different lines
C21_Witness ==
    /\ Done
    /\ entry = "parse_asset_ledger"
    /\ Len(violations) = 3
    /\ violations[1].line < violations[2].line
    /\ violations[2].line < violations[3].line

\* C22: within the structure scan the line numbers of successive violations
\* (outline lines for sections not found, prose lines for sections out of
\* order) never decrease.
C22_StructureLinesAscend ==
    (outline_file.exists /\ prose_file.exists) => LinesAscend(violations)

-----------------------------------------------------------------------------
(* Inputs and properties of _parse_structure_sections, under SpecOutline *)

MaxOutlineLines == 3

\* "## Section <k>: <name>"
SectionLine(k, name) == SectionMarker \o <<" ", k, ":", " ">> \o name

\* " ## Section 4:  A: B ": leading and trailing blanks, and two colons
TwoColonLine == <<" ", "#", "#", " ", "S", "e", "c", "t", "i", "o", "n", " ", "4", ":", " ", " ", "A", ":", " ", "B", " ">>

\* "## Section Notes": no colon
NoColonLine == SectionMarker \o <<" ", "N", "o", "t", "e", "s">>

\* "x: ## Section 1": the marker is not at the start of the line
MarkerInside == <<"x", ":", " ">> \o SectionMarker \o <<" ", "1">>

\* the lines an outline is made of; the name each stands for, when it
\* declares a section, is given by DeclaredName
OutlinePool ==
    {SectionLine("1", Intro), SectionLine("2", Background),
     SectionLine("3", Conclusion), TwoColonLine, NoColonLine, SectionMarker,
     OutlineTitle, ProseHeading(Intro), MarkerInside}

Declares(line) ==
    line \in {SectionLine("1", Intro), SectionLine("2", Background),
              SectionLine("3", Conclusion), TwoColonLine, NoColonLine,
              SectionMarker}

DeclaredName(line) ==
    CASE line = SectionLine("1", Intro) -> Intro
      [] line = SectionLine("2", Background) -> Background
      [] line = SectionLine("3", Conclusion) -> Conclusion
      [] line = TwoColonLine -> <<"A", ":", " ", "B">>
      [] line = NoColonLine -> <<"N", "o", "t", "e", "s">>
      [] line = SectionMarker -> <<>>

InitOutline ==
    /\ entry = "parse_structure_sections"
    /\ user_guide = TRUE
    /\ episodes_dir = NoDir
    /\ pc = "parse_structure_sections"
    /\ outline_file \in {NoFile} \cup
           {File(ls) : ls \in SeqsUpTo(OutlinePool, MaxOutlineLines)}
    /\ prose_file = NoFile
    /\ ledger_file = NoFile
    /\ episode_ids = {}
    /\ InitCommon

NextOutline == ParseStructureSections

SpecOutline == InitOutline /\ [][NextOutline]_vars

\* the file positions of the declaring lines, in file order
RECURSIVE DeclaringLines(_, _)
DeclaringLines(ls, n) ==
    IF n > Len(ls) THEN <<>>
    ELSE IF Declares(ls[n]) THEN <<n>> \o DeclaringLines(ls, n + 1)
    ELSE DeclaringLines(ls, n + 1)

\* C28: _parse_structure_sections returns, in file order, one entry for each
\* outline line that declares a section and none for any other line, each
\* with the line's number and with the trimmed text after the first colon as
\* name, or the trimmed remainder after the marker when there is no colon.
C28_SectionsInFileOrder ==
    (Done /\ outline_file.exists) =>
        LET ls == outline_file.lines
            at == DeclaringLines(ls, 1)
        IN  /\ Len(structure_sections) = Len(at)
            /\ \A k \in 1..Len(at) :
                   structure_sections[k] =
                       [name |-> DeclaredName(ls[at[k]]), line |-> at[k]]

\* the three lines '## Section k: T_k' give the names [T_1, T_2, T_3]
C28_Witness ==
    /\ Done
    /\ outline_file = File(<<SectionLine("1", Intro), SectionLine("2", Background),
                             SectionLine("3", Conclusion)>>)
    /\ Names(structure_sections) = <<Intro, Background, Conclusion>>

-----------------------------------------------------------------------------
(* Inputs and properties of two calls of validate on one tree, under        *)
(* SpecTwoRuns                                                              *)

\* a episodes directory with two ill-named files
TwoOffenders ==
    Dir({RegularFile(EpisodeFile(<<"1">>)), RegularFile(EpisodeFile(<<"0", "0", "1">>))})

InitTwoRuns ==
    /\ entry = "validate"
    /\ pc = "validate"
    /\ user_guide \in BOOLEAN
    /\ ledger_file \in IF user_guide THEN {NoFile, File(<<Row(IdA, Ep01)>>)}
                        ELSE {NoFile}
    /\ episodes_dir \in IF user_guide
                         THEN {NoDir, Dir({RegularFile(EpisodeFile(Ep01))}), TwoOffenders}
                         ELSE {NoDir}
    /\ prose_file \in IF user_guide THEN {NoFile, File(<<IdB>>)} ELSE {NoFile}
    /\ outline_file \in IF user_guide
                         THEN {NoFile, File(<<OutlineTitle, OutlineLine(Intro)>>)}
                         ELSE {NoFile}
    /\ episode_ids = {}
    /\ InitCommon

NextTwoRuns ==
    \/ ValidateBegin
    \/ ParseAssetLedgerBegin
    \/ ParseLedgerLine
    \/ ParseAssetLedgerReturn
    \/ ListEpisodeIdsBegin
    \/ ListEpisodeEntry
    \/ ListEpisodeIdsReturn
    \/ ValidateProseReferencesBegin
    \/ ScanProseLine
    \/ ValidateProseReferencesReturn
    \/ ValidateAssetSourcesBegin
    \/ ValidateAssetSource
    \/ ValidateAssetSourcesReturn
    \/ ParseStructureSections
    \/ ParseProseSections
    \/ ValidateStructureOrderBegin
    \/ CheckSection
    \/ ValidateStructureOrderReturn
    \/ ValidateAgainFresh
    \/ ValidateAgainSameInstance

SpecTwoRuns == InitTwoRuns /\ [][NextTwoRuns]_vars

\* C23: a second run on the unchanged tree, with a freshly constructed
\* validator, returns the same ordered list of violations as the first,
\* whatever the order in which the episode directory yields its entries.
C23_FreshRunsAgree ==
    (run = "fresh" /\ Done) => violations = first_result

\* C24: a second call of validate() on the same validator instance, over the
\* unchanged tree, returns the same list of violations as the first call
\* returned: nothing of the first run is carried into the second.
C24_SameInstanceRunsAgree ==
    (run = "same" /\ Done) => violations = first_result

-----------------------------------------------------------------------------
(* Inputs and properties of validate_all, under SpecRunner *)

MaxFindings == 1

\* a violation a validator found, under one of two requirements
Finding(req) ==
    [artifact |-> "CANON.md", line |-> NoLine, requirement |-> req,
     details |-> <<"finding", <<>>, <<>>>>]

Findings == {Finding("TRIAD"), Finding("USER_GUIDE_ASSET")}

\* "Permission denied"
Denied == <<"d", "e", "n", "i", "e", "d">>

\* what a call of validate() does: it returns a list of violations, or it
\* raises an I/O error
Outcomes ==
    {[raises |-> TRUE, error |-> Denied, violations |-> <<>>]} \cup
    {[raises |-> FALSE, error |-> <<>>, violations |-> fs] :
        fs \in SeqsUpTo(Findings, MaxFindings)}

\* the validator variables of a run that uses the runner or the REINDEX tool
InitNoValidator ==
    /\ user_guide = FALSE
    /\ episodes_dir = NoDir
    /\ ledger_file = NoFile
    /\ prose_file = NoFile
    /\ outline_file = NoFile
    /\ episode_ids = {}
    /\ violations = <<>>
    /\ line_number = 0
    /\ expected_next_id = 0
    /\ asset_ids = {}
    /\ asset_sources = <<>>
    /\ missing = {}
    /\ src_index = 0
    /\ structure_sections = <<>>
    /\ prose_sections = <<>>
    /\ sec_index = 0
    /\ last_index = 0
    /\ ep_seen = {}
    /\ InitOneRun

InitRunner ==
    /\ entry = "validate_all"
    /\ pc = "validate_all"
    /\ validator_outcomes \in [1..Len(ValidatorClasses) -> Outcomes]
    /\ validator_index = 0
    /\ all_violations = <<>>
    /\ result = NoResult
    /\ InitNoValidator
    /\ InitNoReindex

NextRunner ==
    \/ ValidateAllBegin
    \/ RunValidator
    \/ ValidateAllReturn

SpecRunner == InitRunner /\ [][NextRunner]_vars

SomeValidatorRaises ==
    \E k \in 1..Len(validator_outcomes) : validator_outcomes[k].raises

\* C25: when a validator raises an unexpected failure, validate_all does not
\* return a result: the failure reaches the caller, and no entry of a
\* returned violation list stands for it.
C25_FailurePropagates ==
    SomeValidatorRaises =>
        /\ ~result.returned
        /\ \A i \in 1..Len(all_violations) :
               all_violations[i].details[1] # MsgValidatorFailed

RECURSIVE SumCounts(_)
SumCounts(counts) ==
    IF counts = <<>> THEN 0 ELSE Head(counts).count + SumCounts(Tail(counts))

\* C29: in every result of validate_all, valid is true exactly when the
\* violations list is empty, total_violations is the length of that list,
\* validators_run is the number of configured validators (also when some of
\* them raised), and the counts of by_requirement add up to
\* total_violations.
C29_SummaryConsistent ==
    result.returned =>
        /\ result.valid <=> (result.violations = <<>>)
        /\ result.summary.total_violations = Len(result.violations)
        /\ result.summary.validators_run = Len(ValidatorClasses)
        /\ SumCounts(result.summary.by_requirement) =
               result.summary.total_violations

\* a run in which one validator raised and two others found a violation
\* under the same requirement
C29_Witness ==
    /\ result.returned
    /\ SomeValidatorRaises
    /\ ~result.valid
    /\ result.summary.total_violations = 3
    /\ result.summary.validators_run = 5
    /\ result.summary.by_requirement =
           <<[key |-> "TRIAD", count |-> 2],
             [key |-> "validation_protocol", count |-> 1]>>

-----------------------------------------------------------------------------
(* Inputs and properties of REINDEXManager, under SpecReindex *)

MaxClock == 2

\* the four states and a name that is none of them
StateArguments == VALID_STATES \cup {"drafts"}

Reasons == {"", "Changing asset ID format"}

\* what the user may type at the prompt
Responses == {<<"y">>, <<"Y">>, <<"n">>, <<>>}

InitReindex ==
    /\ entry = "reindex"
    /\ pc = "reindex"
    /\ state_dirs \in SUBSET VALID_STATES
    /\ markers = [s \in VALID_STATES |-> NoMarker]
    /\ outcome = NoOutcome
    /\ InitNoValidator
    /\ InitNoRunner

StartCommand ==
    \E state \in StateArguments, now \in 1..MaxClock, reason \in Reasons :
        StartReindex(state, now, reason, "", "")

CompleteCommand ==
    \E state \in StateArguments, response \in Responses :
        RemoveMarker("complete", state, response)

AbortCommand ==
    \E state \in StateArguments, response \in Responses :
        RemoveMarker("abort", state, response)

NextReindex ==
    \/ StartCommand
    \/ CompleteCommand
    \/ AbortCommand

SpecReindex == InitReindex /\ [][NextReindex]_vars

\* What one command may do to the markers, the answers in accepted being
\* those that confirm a removal.  The command is the one outcome' reports.
\*  - a command touches no marker but that of the state it names;
\*  - start on a state with a marker exits with an error and leaves it as is;
\*  - complete and abort on a state with no marker exit with an error;
\*  - complete and abort on a state with a marker remove it exactly when the
\*    answer confirms;
\*  - a state becomes active by a start that succeeded and by nothing else,
\*    and stops being active by a confirmed complete or abort and by nothing
\*    else.
\* A state's marker is the one file REINDEX.md of its directory, so a state
\* never has two.
Lifecycle(accepted) ==
    LET command == outcome'.command
        state == outcome'.state
        status == outcome'.status
        removal == command \in {"complete", "abort"}
    IN  /\ \A s \in VALID_STATES \ {state} : markers'[s] = markers[s]
        /\ state \in VALID_STATES =>
               /\ (command = "start" /\ markers[state].exists) =>
                      (status = "exit 1" /\ markers'[state] = markers[state])
               /\ (removal /\ ~markers[state].exists) =>
                      (status = "exit 1" /\ ~markers'[state].exists)
               /\ (removal /\ markers[state].exists) =>
                      (markers'[state].exists <=> outcome'.answer \notin accepted)
               /\ (~markers[state].exists /\ markers'[state].exists) <=>
                      (command = "start" /\ status = "returned")
               /\ (markers[state].exists /\ ~markers'[state].exists) <=>
                      (removal /\ status = "returned")

\* C30 as stated: the marker lifecycle, a removal being confirmed by the
\* answer 'y' and by no other.
C30_MarkerLifecycle == [][Lifecycle({<<"y">>})]_vars

\* C30 as amended: the marker lifecycle, a removal being confirmed by the
\* answer 'y' in either case, 'y' or 'Y' (the answer is lower-cased before
\* it is compared).
C30_MarkerLifecycleEitherCase == [][Lifecycle({<<"y">>, <<"Y">>})]_vars

\* a complete answered 'Y' has removed the marker of assets while prose is
\* still under REINDEX
C30_Witness ==
    /\ outcome = Ended("complete", "assets", <<"Y">>, "returned")
    /\ ~IsReindexActive("assets")
    /\ IsReindexActive("prose")

=============================================================================
